---- MODULE Spec2Model ----
(***************************************************************************)
(* Navigation maintenance scripts of the docs repository:                  *)
(*   scripts/update-docs-navigation.py      (regenerate merge)             *)
(*   scripts/improve-endpoint-navigation.py (accordion merge)              *)
(*   scripts/add-service-level-navigation.py (service-level merge)         *)
(* The three scripts share docs/docs.json and docs/docs.json.backup.  A    *)
(* run is modelled step by step, one step per effect on the file system,   *)
(* so that an interruption between two steps is a state of the model.      *)
(***************************************************************************)
EXTENDS Integers, Sequences, FiniteSets, TLC

VARIABLES
    docs_json,     \* content of docs/docs.json
    backup_json,   \* content of docs/docs.json.backup
    nav_json,      \* content of docs/api-reference/endpoint/_navigation.json
    script,        \* the script of the current (or last) run
    pc,            \* position of the current run, "idle" between runs
    docs_data,     \* the run's in-memory document (docs_data in the scripts)
    endpoint_nav,  \* the run's in-memory _navigation.json (regenerate merge)
    result,        \* how the last run ended
    pre,           \* content docs.json had when the current (or last) run started
    prev,          \* script and result of the run before the current (or last) one
    older,         \* content docs.json had when that earlier run started
    runs,          \* number of runs started
    kills,         \* number of runs interrupted
    pages_in,      \* argument of a call of categorize_endpoints
    pages_out,     \* what that call returned
    fn,            \* the other function called directly, "none" when there is none
    arg,           \* its argument
    ret,           \* what it returned
    split_dir,     \* docs/api-reference/openapi-split: _index.json and the category files
    page_files,    \* the page files written, and those that cannot be opened for writing
    pre_nav        \* content _navigation.json had when the last generator run started

filevars == <<docs_json, backup_json, nav_json>>
runvars  == <<script, pc, docs_data, endpoint_nav, result, pre, prev, older, runs, kills>>
callvars == <<pages_in, pages_out, fn, arg, ret>>
genvars  == <<split_dir, page_files, pre_nav>>
vars     == <<docs_json, backup_json, nav_json, script, pc, docs_data, endpoint_nav,
              result, pre, prev, older, runs, kills, pages_in, pages_out, fn, arg, ret,
              split_dir, page_files, pre_nav>>

---------------------------------------------------------------------------
(* Bounds of the model.                                                    *)

MaxRuns  == 2   \* script runs in one behaviour
MaxKills == 1   \* interrupted runs in one behaviour
MaxCats  == 2   \* categories after the intro in the initial docs.json
MaxPages == 3   \* length of the argument of a direct call of categorize_endpoints
MaxChain == 3   \* script runs in one behaviour of a chain of merges

(* improve-endpoint-navigation.py:219  if len(pages) > 10 *)
Threshold == 10

---------------------------------------------------------------------------
(* Strings.  TLC gives Len, SubSeq and \o on strings.                       *)

Char(s, i) == SubSeq(s, i, i)

UpperLetters == "ABCDEFGHIJKLMNOPQRSTUVWXYZ"
LowerLetters == "abcdefghijklmnopqrstuvwxyz"

LowerChar(c) ==
    LET hit == {i \in 1..26 : Char(UpperLetters, i) = c}
    IN  IF hit = {} THEN c ELSE Char(LowerLetters, CHOOSE i \in hit : TRUE)

RECURSIVE LowerFrom(_, _)
LowerFrom(s, i) ==
    IF i > Len(s) THEN "" ELSE LowerChar(Char(s, i)) \o LowerFrom(s, i + 1)

(* str.lower() *)
Lower(s) == LowerFrom(s, 1)

(* word in s *)
Contains(s, word) ==
    \E i \in 1..(Len(s) - Len(word) + 1) : SubSeq(s, i, i + Len(word) - 1) = word

(* str.rfind(c) as a 1-based position, 0 when c does not occur *)
LastIndexOf(s, c) ==
    LET hit == {i \in 1..Len(s) : Char(s, i) = c}
    IN  IF hit = {} THEN 0 ELSE CHOOSE i \in hit : \A j \in hit : j <= i

(* pathlib: Path(p).name is the last component; .stem drops the suffix that
   starts at the last '.', unless that '.' is the first or the last character *)
PathName(p) == SubSeq(p, LastIndexOf(p, "/") + 1, Len(p))

PathStem(p) ==
    LET name == PathName(p)
        dot  == LastIndexOf(name, ".")
    IN  IF dot > 1 /\ dot < Len(name) THEN SubSeq(name, 1, dot - 1) ELSE name

---------------------------------------------------------------------------
(* JSON values of the navigation document.  A page entry (a JSON string)   *)
(* is Leaf(p); a group is a JSON object with "group" and "pages" and       *)
(* possibly other keys ("icon").                                           *)

Leaf(p) == [page |-> p]
Group(name, pages) == [group |-> name, pages |-> pages]
IconGroup(name, icon, pages) == [group |-> name, icon |-> icon, pages |-> pages]

(* isinstance(x, str) / isinstance(x, dict) *)
IsStr(x)  == "page" \in DOMAIN x
IsDict(x) == "group" \in DOMAIN x

Tab(name, groups) == [tab |-> name, groups |-> groups]
Document(name, tabs) == [name |-> name, navigation |-> [tabs |-> tabs]]

(* File contents.  The bytes of a JSON file are its layout (style) and the
   value it denotes; "indent2" is the layout json.dump(..., indent=2) writes. *)
Absent  == [kind |-> "absent"]
Partial == [kind |-> "partial"]   \* opened with 'w' (truncated), not completely written
JsonFile(style, data) == [kind |-> "json", style |-> style, data |-> data]

(* json.load succeeds on a complete JSON file only *)
Loadable(f) == f.kind = "json"
json_load(f) == f.data

(* json.dump(data, f, indent=2) followed by the close of the with block *)
json_dump(data) == JsonFile("indent2", data)

---------------------------------------------------------------------------
(* add-service-level-navigation.py: the classification table and the       *)
(* service-level grouping.                                                  *)

(* SERVICE_GROUPS, a dict: its items in declaration order *)
SERVICE_GROUPS == <<
    [service |-> "Core Services", groups |-> <<
        "Access Control", "Camera", "Door", "Door Controller", "Doorbell Camera",
        "User", "Users", "Badge Reader", "Sensor", "Climate", "Button", "Relay",
        "Media Device">>],
    [service |-> "Events & Monitoring", groups |-> <<
        "Event", "Events", "Event Search", "Alert Monitoring",
        "Face Recognition Event", "Face Recognition Matchmaker",
        "Face Recognition Person", "Proximity", "Occupancy">>],
    [service |-> "Integrations", groups |-> <<
        "Access Control Integrations", "Service Management Integrations",
        "Incident Management Integrations", "IoT Integrations",
        "Storage Integrations", "Webhook Integrations", "Org Integrations",
        "Integrations">>],
    [service |-> "Organization & Management", groups |-> <<
        "Organization", "Org", "Location", "Locations", "Customer", "Partner",
        "License", "Permission", "User Metadata">>],
    [service |-> "Security & Access", groups |-> <<
        "OAuth", "Alarm Monitoring Keypad", "Guest Management Kiosk",
        "Lockdown Plan", "RapidSOS">>],
    [service |-> "Media & Video", groups |-> <<
        "Video", "Export", "AudioGateway", "AudioPlayback", "TvOS Config">>],
    [service |-> "Automation & Rules", groups |-> <<
        "Rules", "Rules Records", "Schedule", "Policies", "Policy">>],
    [service |-> "Device Management", groups |-> <<
        "Device Config", "Component", "Components", "BLE">>],
    [service |-> "Data & Reporting", groups |-> <<
        "Report", "Reports", "Search", "Logistics", "Vehicle", "Vehicles">>],
    [service |-> "Developer & System", groups |-> <<
        "Developer", "Feature", "Help", "Upload">>] >>

Range(q) == {q[i] : i \in 1..Len(q)}

(* x in list *)
InList(x, list) == \E i \in 1..Len(list) : list[i] = x

(* a variant that takes a name for a member when it is a part of one *)
RECURSIVE categorize_from_substring(_, _)
categorize_from_substring(group_name, i) ==
    IF i > Len(SERVICE_GROUPS) THEN "Other Services"
    ELSE IF \E j \in 1..Len(SERVICE_GROUPS[i].groups) :
                Contains(SERVICE_GROUPS[i].groups[j], group_name)
         THEN SERVICE_GROUPS[i].service
         ELSE categorize_from_substring(group_name, i + 1)

categorize_group_substring(group_name) == categorize_from_substring(group_name, 1)

RECURSIVE categorize_from(_, _)
categorize_from(group_name, i) ==
    IF i > Len(SERVICE_GROUPS) THEN "Other Services"
    ELSE IF InList(group_name, SERVICE_GROUPS[i].groups) THEN SERVICE_GROUPS[i].service
    ELSE categorize_from(group_name, i + 1)

categorize_group(group_name) == categorize_from(group_name, 1)

(* a variant that assigns [group] instead of appending *)
add_to_service_overwrite(service_structure, service, group) ==
    (service :> <<group>>) @@ service_structure

(* service_structure[service].append(group), creating the key on first use *)
add_to_service(service_structure, service, group) ==
    LET present == IF service \in DOMAIN service_structure
                   THEN service_structure
                   ELSE (service :> <<>>) @@ service_structure
    IN  [present EXCEPT ![service] = Append(@, group)]

(* the loop over existing_groups: service_structure and uncategorized *)
RECURSIVE partition_groups(_, _, _, _)
partition_groups(existing_groups, i, service_structure, uncategorized) ==
    IF i > Len(existing_groups)
    THEN [service_structure |-> service_structure, uncategorized |-> uncategorized]
    ELSE LET group   == existing_groups[i]
             service == categorize_group(group.group)
         IN  IF service = "Other Services"
             THEN partition_groups(existing_groups, i + 1, service_structure,
                                   Append(uncategorized, group))
             ELSE partition_groups(existing_groups, i + 1,
                                   add_to_service(service_structure, service, group),
                                   uncategorized)

(* a variant that goes through the keys of SERVICE_GROUPS from the last to
   the first *)
RECURSIVE append_service_groups_reversed(_, _, _)
append_service_groups_reversed(new_groups, i, service_structure) ==
    IF i > Len(SERVICE_GROUPS) THEN new_groups
    ELSE LET service_name == SERVICE_GROUPS[Len(SERVICE_GROUPS) + 1 - i].service
         IN  IF service_name \in DOMAIN service_structure
             THEN append_service_groups_reversed(
                      Append(new_groups,
                             Group(service_name, service_structure[service_name])),
                      i + 1, service_structure)
             ELSE append_service_groups_reversed(new_groups, i + 1, service_structure)

(* the loop over SERVICE_GROUPS.keys() that appends the service groups *)
RECURSIVE append_service_groups(_, _, _)
append_service_groups(new_groups, i, service_structure) ==
    IF i > Len(SERVICE_GROUPS) THEN new_groups
    ELSE LET service_name == SERVICE_GROUPS[i].service
         IN  IF service_name \in DOMAIN service_structure
             THEN append_service_groups(
                      Append(new_groups,
                             Group(service_name, service_structure[service_name])),
                      i + 1, service_structure)
             ELSE append_service_groups(new_groups, i + 1, service_structure)

(* a variant that forgets the groups no service lists *)
drop_uncategorized(new_groups, uncategorized) == new_groups

(* if uncategorized: new_groups.append(other_service_group) *)
append_uncategorized(new_groups, uncategorized) ==
    IF uncategorized # <<>>
    THEN Append(new_groups, Group("Other Services", uncategorized))
    ELSE new_groups

(* api_tab['groups'][0] raises IndexError on an empty list *)
service_raises(groups) == groups = <<>>

(* new_groups of organize_with_service_groups, for a non-empty groups list *)
service_groups(groups) ==
    LET intro_group     == groups[1]
        existing_groups == Tail(groups)
        parts == partition_groups(existing_groups, 1, [s \in {} |-> <<>>], <<>>)
    IN  append_uncategorized(
            append_service_groups(<<intro_group>>, 1, parts.service_structure),
            parts.uncategorized)

---------------------------------------------------------------------------
(* improve-endpoint-navigation.py: the action-type classification and the  *)
(* accordion grouping.                                                      *)

CreateWords == <<"create", "add", "upload", "generate", "initiate", "calibrate">>
GetWords    == <<"get", "find", "search", "list">>
UpdateWords == <<"update", "edit", "modify", "assign", "remove", "revoke",
                 "suspend", "unsuspend">>
DeleteWords == <<"delete", "erase">>

(* the keys of the categories dict, in the order of the literal *)
ActionOrder == <<"Create & Add", "Get & Find", "Update & Modify",
                 "Delete & Remove", "Other Operations">>

(* any(word in filename for word in words) *)
AnyWordIn(filename, words) == \E i \in 1..Len(words) : Contains(filename, words[i])

(* a variant that tests the Update & Modify keywords first *)
action_category_update_first(page) ==
    LET filename == Lower(PathStem(page.page))
    IN  IF AnyWordIn(filename, UpdateWords) THEN "Update & Modify"
        ELSE IF AnyWordIn(filename, CreateWords) THEN "Create & Add"
        ELSE IF AnyWordIn(filename, GetWords) THEN "Get & Find"
        ELSE IF AnyWordIn(filename, DeleteWords) THEN "Delete & Remove"
        ELSE "Other Operations"

(* the if/elif chain over Path(page).stem.lower() *)
action_category(page) ==
    LET filename == Lower(PathStem(page.page))
    IN  IF AnyWordIn(filename, CreateWords) THEN "Create & Add"
        ELSE IF AnyWordIn(filename, GetWords) THEN "Get & Find"
        ELSE IF AnyWordIn(filename, UpdateWords) THEN "Update & Modify"
        ELSE IF AnyWordIn(filename, DeleteWords) THEN "Delete & Remove"
        ELSE "Other Operations"

(* the loop over pages: categories[...].append(page) *)
RECURSIVE fill_categories(_, _, _)
fill_categories(pages, i, categories) ==
    IF i > Len(pages) THEN categories
    ELSE fill_categories(pages, i + 1,
             [categories EXCEPT ![action_category(pages[i])] = Append(@, pages[i])])

(* a variant that returns the dict with its empty lists *)
RECURSIVE all_items(_, _)
all_items(categories, i) ==
    IF i > Len(ActionOrder) THEN <<>>
    ELSE <<[key |-> ActionOrder[i], value |-> categories[ActionOrder[i]]]>>
             \o all_items(categories, i + 1)

(* {k: v for k, v in categories.items() if v}: the items, in key order *)
RECURSIVE nonempty_items(_, _)
nonempty_items(categories, i) ==
    IF i > Len(ActionOrder) THEN <<>>
    ELSE LET k == ActionOrder[i]
         IN  IF categories[k] # <<>>
             THEN <<[key |-> k, value |-> categories[k]]>> \o nonempty_items(categories, i + 1)
             ELSE nonempty_items(categories, i + 1)

(* Path(page) raises TypeError when page is not a string *)
categorize_raises(pages) == \E i \in 1..Len(pages) : ~IsStr(pages[i])

(* categorize_endpoints(pages), for a list of strings: the items of the dict *)
categorize_endpoints(pages) ==
    nonempty_items(
        fill_categories(pages, 1, [k \in {ActionOrder[i] : i \in 1..Len(ActionOrder)} |-> <<>>]),
        1)

(* a variant with >= for > *)
many_pages_inclusive(pages) == Len(pages) >= Threshold

(* if len(pages) > 10 *)
many_pages(pages) == Len(pages) > Threshold

(* the sub-groups appended to new_group['pages'] *)
RECURSIVE sub_groups(_, _)
sub_groups(categorized, i) ==
    IF i > Len(categorized) THEN <<>>
    ELSE IF categorized[i].value # <<>>
         THEN <<Group(categorized[i].key, categorized[i].value)>> \o sub_groups(categorized, i + 1)
         ELSE sub_groups(categorized, i + 1)

(* one iteration of the loop over api_tab['groups'][1:] *)
accordion_group(group) ==
    IF many_pages(group.pages)
    THEN Group(group.group, sub_groups(categorize_endpoints(group.pages), 1))
    ELSE group

(* the hard-coded intro_group of the accordion and the regenerate merge *)
intro_group == Group("API documentation", <<Leaf("api-reference/introduction")>>)

accordion_raises(groups) ==
    \E i \in 2..Len(groups) : many_pages(groups[i].pages) /\ categorize_raises(groups[i].pages)

(* a variant that forgets the [1:] slice: the old intro is processed as a category *)
accordion_groups_noskip(groups) ==
    <<intro_group>> \o [i \in 1..Len(groups) |-> accordion_group(groups[i])]

(* new_groups of create_accordion_navigation *)
accordion_groups(groups) ==
    <<intro_group>> \o [i \in 1..(IF Len(groups) > 1 THEN Len(groups) - 1 ELSE 0) |->
                           accordion_group(groups[i + 1])]

---------------------------------------------------------------------------
(* update-docs-navigation.py: api_tab['groups'] = [intro_group] + endpoint_nav *)

regenerate_groups(nav) == <<intro_group>> \o nav

---------------------------------------------------------------------------
(* The part the three scripts share: find the tab, replace its groups.      *)

(* the for loop with break: the first tab named 'API reference', 0 if none *)
find_api_tab(data) ==
    LET tabs == data.navigation.tabs
        hit  == {i \in 1..Len(tabs) : tabs[i].tab = "API reference"}
    IN  IF hit = {} THEN 0 ELSE CHOOSE i \in hit : \A j \in hit : i <= j

api_groups(data) == data.navigation.tabs[find_api_tab(data)].groups

(* a variant without the break: every tab of that name gets the new groups *)
set_api_groups_all(data, new_groups) ==
    [data EXCEPT !.navigation.tabs =
        [i \in 1..Len(@) |-> IF @[i].tab = "API reference"
                             THEN [@[i] EXCEPT !.groups = new_groups] ELSE @[i]]]

(* api_tab['groups'] = new_groups: in place, on the loaded document *)
set_api_groups(data, new_groups) ==
    [data EXCEPT !.navigation.tabs[find_api_tab(data)].groups = new_groups]

(* whether the script raises between the tab lookup and the final write *)
merge_raises(s, groups) ==
    CASE s = "service"    -> service_raises(groups)
      [] s = "accordion"  -> accordion_raises(groups)
      [] s = "regenerate" -> FALSE

new_groups_of(s, groups, nav) ==
    CASE s = "service"    -> service_groups(groups)
      [] s = "accordion"  -> accordion_groups(groups)
      [] s = "regenerate" -> regenerate_groups(nav)

---------------------------------------------------------------------------
(* The documents the model starts from.                                     *)

(* file stems of endpoint pages, without the category prefix *)
StemPool == <<"createcamera", "getcameralist", "updatecamera", "rebootcamera",
              "deletecamera", "FindCamera", "getandupdateconfig", "addcamera",
              "erasefootage", "editanduploadclip", "ping", "removeuser",
              "listdevices", "status">>

(* generate-endpoint-docs.py:131  docs-relative path of the page, no extension *)
page_of(dir, stem) == Leaf("api-reference/endpoint/" \o dir \o "/" \o dir \o "-" \o stem)

pages_of(dir, n) == [i \in 1..n |-> page_of(dir, StemPool[i])]

(* categories at and just above the threshold, of two services, and one that
   no service lists *)
PaletteCats ==
    {Group("Camera", pages_of("camera", Threshold)),
     Group("User", pages_of("user", Threshold + 1)),
     IconGroup("Event", "calendar", pages_of("event", 2)),
     Group("Widget", pages_of("widget", 1))}

Intros == {intro_group,
           IconGroup("Getting started", "book",
                     <<Leaf("api-reference/introduction"), Leaf("api-reference/authentication")>>)}

SeqsUpTo(S, n) == UNION {[1..k -> S] : k \in 0..n}

GroupLists ==
    {<<>>} \cup {<<intro>> \o cats : intro \in Intros, cats \in SeqsUpTo(PaletteCats, MaxCats)}

GuidesTab == Tab("Guides", <<Group("Get started", <<Leaf("index"), Leaf("quickstart")>>)>>)
SecondApiTab == Tab("API reference", <<Group("Legacy", <<Leaf("legacy/overview")>>)>>)

(* no 'API reference' tab; one, after another tab; two of that name *)
Documents ==
    {Document("Rhombus", <<GuidesTab>>)}
    \cup {Document("Rhombus", <<GuidesTab, Tab("API reference", g)>>) : g \in GroupLists}
    \cup {Document("Rhombus", <<Tab("API reference", g), GuidesTab, SecondApiTab>>) :
              g \in {h \in GroupLists : Len(h) = 2 /\ h[1] = intro_group}}

(* a hand-edited docs.json need not have the layout json.dump writes *)
Styles == {"indent2", "indent4"}

(* _navigation.json as generate-endpoint-docs.py writes it: flat categories *)
NavList == <<Group("Camera", pages_of("camera", Threshold + 2)),
             Group("Door", pages_of("door", 1))>>

NoData == <<>>

(* no _index.json and no category file; no page written, none unwritable *)
NoSplit == [index |-> Absent, files |-> {}]
NoPages == [written |-> <<>>, unwritable |-> {}]
NotCalled == [called |-> FALSE]

Init ==
    /\ docs_json \in {JsonFile(st, d) : st \in Styles, d \in Documents}
    /\ backup_json = Absent
    /\ nav_json \in {Absent, json_dump(NavList)}
    /\ script = "none"
    /\ pc = "idle"
    /\ docs_data = NoData
    /\ endpoint_nav = NoData
    /\ result = "none"
    /\ pre = docs_json
    /\ prev = [script |-> "none", result |-> "none"]
    /\ older = Absent
    /\ runs = 0
    /\ kills = 0
    /\ pages_in = <<>>
    /\ pages_out = NotCalled
    /\ fn = "none"
    /\ arg = <<>>
    /\ ret = NotCalled
    /\ split_dir = NoSplit
    /\ page_files = NoPages
    /\ pre_nav = nav_json

---------------------------------------------------------------------------
(* One run of a script, step by step.                                       *)

Scripts == {"regenerate", "accordion", "service"}

(* the run ends: the process exits and its memory is gone *)
Finish(r) ==
    /\ pc' = "idle"
    /\ result' = r
    /\ docs_data' = NoData
    /\ endpoint_nav' = NoData

(* a variant whose backup is still open, not written, when the script goes on *)
backup_unflushed(data) == Partial

(* with open(BACKUP_JSON, 'w') as f: json.dump(docs_data, f, indent=2) *)
backup_bytes(data) == json_dump(data)

(* with open(DOCS_JSON, 'r') as f: docs_data = json.load(f) *)
Load(s) ==
    /\ pc = "idle"
    /\ runs' = runs + 1
    /\ script' = s
    /\ prev' = [script |-> script, result |-> result]
    /\ older' = IF script = "none" THEN Absent ELSE pre
    /\ pre' = docs_json
    /\ IF Loadable(docs_json)
       THEN /\ pc' = "loaded"
            /\ result' = "running"
            /\ docs_data' = json_load(docs_json)
            /\ endpoint_nav' = NoData
       ELSE Finish("raised")
    /\ UNCHANGED <<filevars, kills, callvars, genvars>>

(* a run of script s starts *)
Start(s) == runs < MaxRuns /\ Load(s)

(* a variant that keeps a backup it finds: the oldest generation stays *)
OpenBackupKeep ==
    /\ pc = "loaded"
    /\ IF Loadable(backup_json)
       THEN backup_json' = backup_json /\ pc' = "backed_up"
       ELSE backup_json' = Partial /\ pc' = "backup_open"
    /\ UNCHANGED <<docs_json, nav_json, script, docs_data, endpoint_nav, result, pre,
                   prev, older, runs, kills, callvars, genvars>>

(* open(BACKUP_JSON, 'w') truncates the backup *)
OpenBackup ==
    /\ pc = "loaded"
    /\ backup_json' = Partial
    /\ pc' = "backup_open"
    /\ UNCHANGED <<docs_json, nav_json, script, docs_data, endpoint_nav, result, pre,
                   prev, older, runs, kills, callvars, genvars>>

(* json.dump(docs_data, f, indent=2) and the close of the backup *)
WriteBackup ==
    /\ pc = "backup_open"
    /\ backup_json' = backup_bytes(docs_data)
    /\ pc' = "backed_up"
    /\ UNCHANGED <<docs_json, nav_json, script, docs_data, endpoint_nav, result, pre,
                   prev, older, runs, kills, callvars, genvars>>

(* update-docs-navigation.py only: with open(NAV_JSON, 'r') as f: json.load(f) *)
LoadNav ==
    /\ pc = "backed_up"
    /\ script = "regenerate"
    /\ IF Loadable(nav_json)
       THEN /\ endpoint_nav' = json_load(nav_json)
            /\ pc' = "nav_loaded"
            /\ UNCHANGED <<docs_data, result>>
       ELSE Finish("raised")
    /\ UNCHANGED <<filevars, script, pre, prev, older, runs, kills,
                   callvars, genvars>>

(* find the tab; print the diagnostic and return when there is none;
   otherwise build new_groups and assign api_tab['groups'] *)
Merge ==
    /\ \/ pc = "backed_up" /\ script # "regenerate"
       \/ pc = "nav_loaded"
    /\ IF find_api_tab(docs_data) = 0
       THEN Finish("no_tab")
       ELSE IF merge_raises(script, api_groups(docs_data))
       THEN Finish("raised")
       ELSE /\ docs_data' = set_api_groups(docs_data,
                                new_groups_of(script, api_groups(docs_data), endpoint_nav))
            /\ pc' = "merged"
            /\ UNCHANGED <<endpoint_nav, result>>
    /\ UNCHANGED <<filevars, script, pre, prev, older, runs, kills,
                   callvars, genvars>>

(* open(DOCS_JSON, 'w') truncates the document *)
OpenDocs ==
    /\ pc = "merged"
    /\ docs_json' = Partial
    /\ pc' = "docs_open"
    /\ UNCHANGED <<backup_json, nav_json, script, docs_data, endpoint_nav, result, pre,
                   prev, older, runs, kills, callvars, genvars>>

(* json.dump(docs_data, f, indent=2), the close, and the summary prints *)
WriteDocs ==
    /\ pc = "docs_open"
    /\ docs_json' = json_dump(docs_data)
    /\ Finish("written")
    /\ UNCHANGED <<backup_json, nav_json, script, pre, prev, older, runs, kills,
                   callvars, genvars>>

(* the process is interrupted between two steps *)
Kill ==
    /\ pc # "idle"
    /\ kills < MaxKills
    /\ kills' = kills + 1
    /\ Finish("killed")
    /\ UNCHANGED <<filevars, script, pre, prev, older, runs, callvars, genvars>>

Next ==
    \/ \E s \in Scripts : Start(s)
    \/ OpenBackup
    \/ WriteBackup
    \/ LoadNav
    \/ Merge
    \/ OpenDocs
    \/ WriteDocs
    \/ Kill

Spec == Init /\ [][Next]_vars

---------------------------------------------------------------------------
(* generate-endpoint-docs.py: the endpoint page emitter.                    *)

(* str.replace(old, new) from position i on: every occurrence, left to
   right, without overlap *)
RECURSIVE ReplaceFrom(_, _, _, _)
ReplaceFrom(s, i, old, new) ==
    LET hit == {k \in i..(Len(s) - Len(old) + 1) :
                   SubSeq(s, k, k + Len(old) - 1) = old}
    IN  IF hit = {} THEN SubSeq(s, i, Len(s))
        ELSE LET k == CHOOSE k \in hit : \A j \in hit : k <= j
             IN  SubSeq(s, i, k - 1) \o new \o ReplaceFrom(s, k + Len(old), old, new)

Replace(s, old, new) == ReplaceFrom(s, 1, old, new)

(* the characters [a-z0-9\-] *)
FilenameChars == LowerLetters \o "0123456789-"

(* re.sub(r'[^a-z0-9\-]', '', s) from position i on *)
RECURSIVE SubFrom(_, _)
SubFrom(s, i) ==
    IF i > Len(s) THEN ""
    ELSE (IF Contains(FilenameChars, Char(s, i)) THEN Char(s, i) ELSE "")
         \o SubFrom(s, i + 1)

sanitize_filename(name) ==
    LET stripped == Lower(Replace(name, "/api/", ""))
        hyphened == Replace(stripped, "/", "-")
    IN  SubFrom(hyphened, 1)
----------------------------------------------------------------------------

UpperChar(c) ==
    LET hit == {i \in 1..26 : Char(LowerLetters, i) = c}
    IN  IF hit = {} THEN c ELSE Char(UpperLetters, CHOOSE i \in hit : TRUE)

RECURSIVE UpperFrom(_, _)
UpperFrom(s, i) ==
    IF i > Len(s) THEN "" ELSE UpperChar(Char(s, i)) \o UpperFrom(s, i + 1)

(* str.upper() *)
Upper(s) == UpperFrom(s, 1)

(* a dict with no key *)
EmptyDict == [k \in {} |-> k]

(* dict.get(key, default) *)
Get(d, key, default) == IF key \in DOMAIN d THEN d[key] ELSE default

(* the methods tried, in the order of the list *)
Methods == <<"get", "post", "put", "delete", "patch">>

(* the tuple returned for the method at position i of the list *)
method_details(endpoint_data, i) ==
    LET details == endpoint_data[Methods[i]]
    IN  <<Upper(Methods[i]), Get(details, "summary", ""),
          Get(details, "description", ""), Get(details, "deprecated", FALSE)>>

(* a variant that returns the last method of the list that is a key *)
get_method_and_summary_last(endpoint_data) ==
    LET hit == {i \in 1..Len(Methods) : Methods[i] \in DOMAIN endpoint_data}
    IN  IF hit = {} THEN <<"POST", "", "", FALSE>>
        ELSE method_details(endpoint_data, CHOOSE i \in hit : \A j \in hit : j <= i)

get_method_and_summary(endpoint_data) ==
    LET hit == {i \in 1..Len(Methods) : Methods[i] \in DOMAIN endpoint_data}
    IN  IF hit = {} THEN <<"POST", "", "", FALSE>>
        ELSE method_details(endpoint_data, CHOOSE i \in hit : \A j \in hit : i <= j)

(* a or b, on strings: b when a is empty *)
Or(a, b) == IF a = "" THEN b ELSE a

(* a variant that falls back to the path as it is *)
title_raw(summary, path) == Or(summary, path)

(* title = summary or path.replace('/api/', '') *)
title_of(summary, path) == Or(summary, Replace(path, "/api/", ""))

(* a variant that also shortens a text of exactly 160 characters *)
truncate_inclusive(desc) ==
    IF Len(desc) >= 160 THEN SubSeq(desc, 1, 157) \o "..." ELSE desc

(* if len(desc) > 160: desc = desc[:157] + "..." *)
truncate(desc) ==
    IF Len(desc) > 160 THEN SubSeq(desc, 1, 157) \o "..." ELSE desc

icon_map ==
    [camera |-> "camera", user |-> "user", event |-> "calendar",
     location |-> "map-pin", door |-> "door-open", sensor |-> "sensor",
     video |-> "video", alert |-> "bell", org |-> "building",
     webhook |-> "webhook", oauth |-> "key", report |-> "chart-bar"]
    @@ ("access-control" :> "lock")

(* the page, as the values its text is made of: the front matter fields, and
   the description paragraph of the body, "" when there is none *)
generate_mdx_content(path, endpoint_data, category) ==
    LET t           == get_method_and_summary(endpoint_data)
        method      == t[1]
        summary     == t[2]
        description == t[3]
        deprecated  == t[4]
        desc        == Or(description, Or(summary, "API endpoint for " \o path))
    IN  [title       |-> title_of(summary, path),
         description |-> truncate(desc),
         openapi     |-> method \o " " \o path,
         icon        |-> Get(icon_map, category, "circle-dot"),
         deprecated  |-> deprecated,
         body        |-> IF description # "" /\ description # summary
                         THEN description ELSE ""]

ENDPOINT_DIR == "docs/api-reference/endpoint"

(* d[key] = value on a dict kept as the sequence of its items *)
dict_set(d, key, value) ==
    IF \E i \in 1..Len(d) : d[i].key = key
    THEN [i \in 1..Len(d) |-> IF d[i].key = key THEN [key |-> key, value |-> value]
                                                ELSE d[i]]
    ELSE Append(d, [key |-> key, value |-> value])

(* str(filepath.relative_to('docs')).replace('.mdx', '') *)
nav_path_of(filepath) == Replace(SubSeq(filepath, Len("docs/") + 1, Len(filepath)), ".mdx", "")

(* a variant that leaves a page file alone when an earlier path of the loop
   wrote it *)
RECURSIVE write_pages_skip(_, _, _, _, _, _)
write_pages_skip(category, paths, unwritable, i, written, generated) ==
    IF i > Len(paths)
    THEN [raised |-> FALSE, warned |-> FALSE, written |-> written, value |-> generated]
    ELSE LET path     == paths[i].key
             filename == sanitize_filename(path) \o ".mdx"
             filepath == ENDPOINT_DIR \o "/" \o category \o "/" \o filename
             content  == generate_mdx_content(path, paths[i].value, category)
         IN  IF filepath \in unwritable
             THEN [raised |-> TRUE, warned |-> FALSE, written |-> written, value |-> <<>>]
             ELSE write_pages_skip(category, paths, unwritable, i + 1,
                      IF \E k \in 1..Len(written) : written[k].file = filepath
                      THEN written
                      ELSE Append(written, [file |-> filepath, content |-> content]),
                      dict_set(generated, path, nav_path_of(filepath)))

process_category_file_skip(category, paths, unwritable) ==
    IF paths = <<>>
    THEN [raised |-> FALSE, warned |-> TRUE, written |-> <<>>, value |-> <<>>]
    ELSE write_pages_skip(category, paths, unwritable, 1, <<>>, <<>>)

(* the loop of process_category_file from item i on; written is the
   sequence of the files written so far, generated the dict generated_files;
   open(filepath, 'w') raises for the files of unwritable, and nothing
   catches it *)
RECURSIVE write_pages(_, _, _, _, _, _)
write_pages(category, paths, unwritable, i, written, generated) ==
    IF i > Len(paths)
    THEN [raised |-> FALSE, warned |-> FALSE, written |-> written, value |-> generated]
    ELSE LET path     == paths[i].key
             filename == sanitize_filename(path) \o ".mdx"
             filepath == ENDPOINT_DIR \o "/" \o category \o "/" \o filename
             content  == generate_mdx_content(path, paths[i].value, category)
         IN  IF filepath \in unwritable
             THEN [raised |-> TRUE, warned |-> FALSE, written |-> written, value |-> <<>>]
             ELSE write_pages(category, paths, unwritable, i + 1,
                      Append(written, [file |-> filepath, content |-> content]),
                      dict_set(generated, path, nav_path_of(filepath)))

(* process_category_file on the category file of stem category whose 'paths'
   dict is paths; warned: the warning 'No paths found' is printed *)
process_category_file(category, paths, unwritable) ==
    IF paths = <<>>
    THEN [raised |-> FALSE, warned |-> TRUE, written |-> <<>>, value |-> <<>>]
    ELSE write_pages(category, paths, unwritable, 1, <<>>, <<>>)

(* improve-endpoint-navigation.py: the icons of the endpoint pages.         *)

ACTION_ICONS ==
    <<[key |-> "create", value |-> "square-plus"],
      [key |-> "add", value |-> "user-plus"],
      [key |-> "upload", value |-> "cloud-arrow-up"],
      [key |-> "generate", value |-> "wand-magic-sparkles"],
      [key |-> "calibrate", value |-> "sliders"],
      [key |-> "initiate", value |-> "play"],
      [key |-> "trigger", value |-> "bolt"],
      [key |-> "get", value |-> "eye"],
      [key |-> "find", value |-> "magnifying-glass"],
      [key |-> "search", value |-> "magnifying-glass"],
      [key |-> "list", value |-> "list"],
      [key |-> "getall", value |-> "list-check"],
      [key |-> "findall", value |-> "list-check"],
      [key |-> "update", value |-> "pen-to-square"],
      [key |-> "edit", value |-> "pen"],
      [key |-> "modify", value |-> "pen"],
      [key |-> "assign", value |-> "arrow-right-arrow-left"],
      [key |-> "remove", value |-> "user-minus"],
      [key |-> "revoke", value |-> "ban"],
      [key |-> "suspend", value |-> "pause"],
      [key |-> "unsuspend", value |-> "play"],
      [key |-> "delete", value |-> "trash-can"],
      [key |-> "erase", value |-> "eraser"],
      [key |-> "unlock", value |-> "lock-open"],
      [key |-> "lock", value |-> "lock"],
      [key |-> "revert", value |-> "arrow-rotate-left"]>>

CATEGORY_ICONS ==
    <<[key |-> "access-control", value |-> "key"],
      [key |-> "camera", value |-> "video"],
      [key |-> "door", value |-> "door-open"],
      [key |-> "user", value |-> "user"],
      [key |-> "event", value |-> "calendar"],
      [key |-> "alert", value |-> "bell"],
      [key |-> "sensor", value |-> "sensor"],
      [key |-> "webhook", value |-> "webhook"],
      [key |-> "location", value |-> "map-pin"],
      [key |-> "org", value |-> "building"],
      [key |-> "oauth", value |-> "shield-halved"],
      [key |-> "face-recognition", value |-> "face-smile"],
      [key |-> "badge-reader", value |-> "id-card"],
      [key |-> "doorbell", value |-> "bell"],
      [key |-> "climate", value |-> "temperature-half"],
      [key |-> "export", value |-> "file-export"],
      [key |-> "report", value |-> "chart-line"],
      [key |-> "developer", value |-> "code"],
      [key |-> "integration", value |-> "plug"],
      [key |-> "keypad", value |-> "keyboard"],
      [key |-> "button", value |-> "circle-dot"],
      [key |-> "device", value |-> "microchip"],
      [key |-> "component", value |-> "puzzle-piece"]>>

(* str.startswith *)
StartsWith(s, prefix) ==
    Len(prefix) <= Len(s) /\ SubSeq(s, 1, Len(prefix)) = prefix

(* str.endswith *)
EndsWith(s, suffix) ==
    Len(suffix) <= Len(s) /\ SubSeq(s, Len(s) - Len(suffix) + 1, Len(s)) = suffix

(* the position of the first c in s, 0 when there is none *)
IndexOf(s, c) ==
    LET hit == {i \in 1..Len(s) : Char(s, i) = c}
    IN  IF hit = {} THEN 0 ELSE CHOOSE i \in hit : \A j \in hit : i <= j

(* the group of re.match(r'^([a-z]+)', s): the longest run of letters of
   a-z at the start of s *)
LeadingLetters(s) ==
    LET other == {i \in 1..Len(s) : ~Contains(LowerLetters, Char(s, i))}
    IN  IF other = {} THEN s
        ELSE SubSeq(s, 1, (CHOOSE i \in other : \A j \in other : i <= j) - 1)

get_action_from_path(path) ==
    LET filename    == PathStem(path)
        dash        == IndexOf(filename, "-")
        action_part == IF dash > 0 THEN SubSeq(filename, dash + 1, Len(filename))
                                   ELSE filename
        action      == LeadingLetters(Lower(action_part))
    IN  IF action # "" THEN action ELSE "other"

(* the value of the first item of table at a position of hits, or default *)
first_value(table, hits, default) ==
    IF hits = {} THEN default
    ELSE table[CHOOSE i \in hits : \A j \in hits : i <= j].value

get_icon_for_endpoint(category, action) ==
    first_value(ACTION_ICONS,
        {i \in 1..Len(ACTION_ICONS) : StartsWith(action, ACTION_ICONS[i].key)},
        first_value(CATEGORY_ICONS,
            {i \in 1..Len(CATEGORY_ICONS) : Contains(category, CATEGORY_ICONS[i].key)},
            "circle-dot"))

(* the characters of file names, in the order of their code points *)
AsciiChars == " -./0123456789" \o UpperLetters \o "_" \o LowerLetters \o "{}"

Ord(c) == IndexOf(AsciiChars, c)

(* a < b on strings *)
StrLess(a, b) ==
    LET n    == IF Len(a) < Len(b) THEN Len(a) ELSE Len(b)
        diff == {i \in 1..n : Char(a, i) # Char(b, i)}
    IN  IF diff = {} THEN Len(a) < Len(b)
        ELSE LET k == CHOOSE i \in diff : \A j \in diff : i <= j
             IN  Ord(Char(a, k)) < Ord(Char(b, k))

(* sorted(S) for a set of strings *)
RECURSIVE sorted(_)
sorted(S) ==
    IF S = {} THEN <<>>
    ELSE LET least == CHOOSE x \in S : \A y \in S : y = x \/ StrLess(x, y)
         IN  <<least>> \o sorted(S \ {least})

(* update_endpoint_icon on a page file: icon is <<>> when the text has no
   icon line, and <<its icon>> otherwise.  The result is the value returned,
   the file afterwards, and whether an error was printed. *)
update_endpoint_icon(file, new_icon) ==
    IF ~file.readable
    THEN [value |-> FALSE, file |-> file, reported |-> TRUE]
    ELSE IF file.icon = <<>> \/ file.icon = <<new_icon>>
    THEN [value |-> FALSE, file |-> file, reported |-> FALSE]
    ELSE IF ~file.writable
    THEN [value |-> FALSE, file |-> file, reported |-> TRUE]
    ELSE [value |-> TRUE, file |-> [file EXCEPT !.icon = <<new_icon>>],
          reported |-> FALSE]

(* the inner loop of process_endpoint_icons over the sorted names of the
   '*.mdx' files of one category directory, from item i on *)
RECURSIVE update_files(_, _, _, _)
update_files(category_dir, names, i, acc) ==
    IF i > Len(names) THEN acc
    ELSE LET file     == CHOOSE f \in category_dir.files : f.name = names[i]
             mdx_file == ENDPOINT_DIR \o "/" \o category_dir.name \o "/" \o file.name
             action   == get_action_from_path(mdx_file)
             new_icon == get_icon_for_endpoint(category_dir.name, action)
             r        == update_endpoint_icon(file, new_icon)
         IN  update_files(category_dir, names, i + 1,
                 [raised        |-> FALSE,
                  updated_count |-> acc.updated_count + (IF r.value THEN 1 ELSE 0),
                  visited       |-> Append(acc.visited, mdx_file),
                  files         |-> Append(acc.files, [path |-> mdx_file, icon |-> r.file.icon]),
                  reported      |-> IF r.reported THEN Append(acc.reported, mdx_file)
                                                  ELSE acc.reported])

(* the outer loop over the sorted entries of ENDPOINT_DIR, from item i on *)
RECURSIVE update_dirs(_, _, _, _)
update_dirs(entries, names, i, acc) ==
    IF i > Len(names) THEN acc
    ELSE LET category_dir == CHOOSE e \in entries : e.name = names[i]
         IN  IF ~category_dir.is_dir \/ StartsWith(category_dir.name, ".")
             THEN update_dirs(entries, names, i + 1, acc)
             ELSE update_dirs(entries, names, i + 1,
                      update_files(category_dir,
                          sorted({f.name : f \in {g \in category_dir.files :
                                                     EndsWith(g.name, ".mdx")}}),
                          1, acc))

(* process_endpoint_icons on the entries of ENDPOINT_DIR: the number it
   prints, the files update_endpoint_icon was called on, their icons
   afterwards, and the files an error was printed for *)
process_endpoint_icons(entries) ==
    update_dirs(entries, sorted({e.name : e \in entries}), 1,
                [raised |-> FALSE, updated_count |-> 0, visited |-> <<>>,
                 files |-> <<>>, reported |-> <<>>])

(* update-llms-files.py: the summarizer.  It reads docs.json and the        *)
(* endpoint directory and writes nothing but its two reports.               *)

(* In the documents read here the values that are lists are those of the
   keys 'tabs', 'groups' and 'pages', and 'navigation' is the one whose value
   is a dict; the values of every other key are scalars. *)

(* The writes traverse(obj, current_category) of count_endpoints_in_nav makes
   to the dict endpoint_counts, in the order it makes them, for a dict obj:
   "reset" is endpoint_counts[name] = 0, "add" is endpoint_counts[name] += 1.
   current_category is <<>> for None. *)
RECURSIVE traverse(_, _)
RECURSIVE traverse_items(_, _, _)
RECURSIVE count_pages(_, _, _)

(* for page in obj["pages"] *)
count_pages(pages, i, current_category) ==
    IF i > Len(pages) THEN <<>>
    ELSE (IF IsStr(pages[i])
          THEN IF current_category # <<>> /\ current_category # <<"">>
               THEN <<[op |-> "add", name |-> current_category[1]]>>
               ELSE <<>>
          ELSE traverse(pages[i], current_category))
         \o count_pages(pages, i + 1, current_category)

(* traverse(list): for item in obj *)
traverse_items(list, i, current_category) ==
    IF i > Len(list) THEN <<>>
    ELSE (IF IsStr(list[i]) THEN <<>> ELSE traverse(list[i], current_category))
         \o traverse_items(list, i + 1, current_category)

traverse(obj, current_category) ==
    LET category == IF "group" \in DOMAIN obj THEN <<obj.group>> ELSE current_category
    IN  (IF "group" \in DOMAIN obj THEN <<[op |-> "reset", name |-> obj.group]>> ELSE <<>>)
        \o (IF "pages" \in DOMAIN obj THEN count_pages(obj.pages, 1, category) ELSE <<>>)
        \o (IF "tabs" \in DOMAIN obj THEN traverse_items(obj.tabs, 1, category) ELSE <<>>)
        \o (IF "groups" \in DOMAIN obj THEN traverse_items(obj.groups, 1, category) ELSE <<>>)
        \o (IF "pages" \in DOMAIN obj THEN traverse_items(obj.pages, 1, category) ELSE <<>>)
        \o (IF "navigation" \in DOMAIN obj THEN traverse(obj.navigation, category) ELSE <<>>)

(* the dict after the writes: a key for every name reset, in the order of
   the first reset, with the number of adds after its last reset *)
RECURSIVE counts_after(_, _)
counts_after(writes, i) ==
    IF i > Len(writes) THEN <<>>
    ELSE LET name == writes[i].name
             last == CHOOSE k \in i..Len(writes) :
                        /\ writes[k] = [op |-> "reset", name |-> name]
                        /\ \A j \in (k + 1)..Len(writes) : writes[j] # writes[k]
         IN  (IF writes[i].op = "reset" /\ \A j \in 1..(i - 1) : writes[j] # writes[i]
              THEN <<[key |-> name,
                      value |-> Cardinality({j \in last..Len(writes) :
                                   writes[j] = [op |-> "add", name |-> name]})]>>
              ELSE <<>>)
             \o counts_after(writes, i + 1)

count_endpoints_in_nav(nav_data) == counts_after(traverse(nav_data, <<>>), 1)

(* sum(endpoint_counts.values()) *)
RECURSIVE sum_values(_, _)
sum_values(d, i) == IF i > Len(d) THEN 0 ELSE d[i].value + sum_values(d, i + 1)

(* the entry of a tab in navigation_tabs; a group name is <<name>>, and <<>>
   for the None that g.get("group") gives for a dict without that key *)
tab_info(tab) ==
    [name |-> Get(tab, "tab", "Unknown")]
    @@ (IF "groups" \in DOMAIN tab
        THEN "groups" :> [i \in 1..Len(tab.groups) |->
                            IF IsStr(tab.groups[i]) THEN <<tab.groups[i].page>>
                            ELSE IF "group" \in DOMAIN tab.groups[i]
                                 THEN <<tab.groups[i].group>> ELSE <<>>]
        ELSE EmptyDict)

(* analyze_docs_json on the file docs.json *)
analyze_docs_json(docs) ==
    IF docs = Absent
    THEN [raised |-> FALSE,
          value  |-> [total_endpoints |-> 0, categories |-> <<>>,
                      theme |-> EmptyDict, navigation_tabs |-> <<>>]]
    ELSE IF ~Loadable(docs) THEN [raised |-> TRUE]
    ELSE LET config == json_load(docs)
             endpoint_counts ==
                 count_endpoints_in_nav(Get(config, "navigation", EmptyDict))
             tabs == IF "navigation" \in DOMAIN config
                        /\ "tabs" \in DOMAIN config.navigation
                     THEN [i \in 1..Len(config.navigation.tabs) |->
                              tab_info(config.navigation.tabs[i])]
                     ELSE <<>>
         IN  [raised |-> FALSE,
              value  |-> [name |-> Get(config, "name", "Rhombus Developer Documentation"),
                          theme |-> Get(config, "theme", "mint"),
                          colors |-> Get(config, "colors", EmptyDict),
                          total_endpoints |-> sum_values(endpoint_counts, 1),
                          endpoint_categories |-> endpoint_counts,
                          navigation_tabs |-> tabs]]

IsLetter(c) == c # "" /\ (Contains(LowerLetters, c) \/ Contains(UpperLetters, c))

(* str.title() from position i on: a letter after a non-letter in upper
   case, every other letter in lower case *)
RECURSIVE TitleFrom(_, _)
TitleFrom(s, i) ==
    IF i > Len(s) THEN ""
    ELSE (IF i > 1 /\ IsLetter(Char(s, i - 1)) THEN LowerChar(Char(s, i))
                                              ELSE UpperChar(Char(s, i)))
         \o TitleFrom(s, i + 1)

Title(s) == TitleFrom(s, 1)

(* the loop of get_api_categories over the sorted names, from item i on *)
RECURSIVE api_categories(_, _, _)
api_categories(entries, names, i) ==
    IF i > Len(names) THEN <<>>
    ELSE LET category_dir == CHOOSE e \in entries : e.name = names[i]
             count == Cardinality({f \in category_dir.files : EndsWith(f.name, ".mdx")})
         IN  (IF category_dir.is_dir /\ count > 0
              THEN <<[name  |-> Title(Replace(category_dir.name, "-", " ")),
                      count |-> count]>>
              ELSE <<>>)
             \o api_categories(entries, names, i + 1)

(* get_api_categories; endpoint_dir is <<>> when the directory does not
   exist, and <<its entries>> otherwise *)
get_api_categories(endpoint_dir) ==
    IF endpoint_dir = <<>> THEN <<>>
    ELSE api_categories(endpoint_dir[1], sorted({e.name : e \in endpoint_dir[1]}), 1)

(* ", ".join(groups) raises a TypeError when an item is None *)
join_raises(groups) == \E i \in 1..Len(groups) : groups[i] = <<>>

RECURSIVE join(_, _)
join(groups, i) ==
    IF i > Len(groups) THEN ""
    ELSE groups[i][1] \o (IF i < Len(groups) THEN ", " ELSE "") \o join(groups, i + 1)

(* generate_llms_txt: the values of the report that come from the inputs.
   The lists of categories the text prints are selections of categories. *)
generate_llms_txt(docs, endpoint_dir) ==
    LET a == analyze_docs_json(docs)
    IN  IF a.raised THEN [raised |-> TRUE]
        ELSE LET config == a.value
                 tabs   == config.navigation_tabs
             IN  IF \E i \in 1..Len(tabs) :
                        "groups" \in DOMAIN tabs[i] /\ join_raises(tabs[i].groups)
                 THEN [raised |-> TRUE]
                 ELSE [raised |-> FALSE,
                       value  |->
                         [total_endpoints |-> config.total_endpoints,
                          tabs |-> [i \in 1..Len(tabs) |->
                                      [name   |-> tabs[i].name,
                                       groups |-> IF "groups" \in DOMAIN tabs[i]
                                                  THEN join(tabs[i].groups, 1) ELSE ""]],
                          colors |-> Get(config, "colors", EmptyDict),
                          categories |-> get_api_categories(endpoint_dir)]]

(* generate_llms_full_txt, in the same way; config['name'] raises a KeyError
   when the dict has no such key *)
generate_llms_full_txt(docs, endpoint_dir) ==
    LET a == analyze_docs_json(docs)
    IN  IF a.raised THEN [raised |-> TRUE]
        ELSE LET config     == a.value
                 tabs       == config.navigation_tabs
                 categories == get_api_categories(endpoint_dir)
             IN  IF "name" \notin DOMAIN config THEN [raised |-> TRUE]
                 ELSE [raised |-> FALSE,
                       value  |->
                         [total_endpoints |-> config.total_endpoints,
                          name  |-> config.name,
                          theme |-> config.theme,
                          colors |-> Get(config, "colors", EmptyDict),
                          tabs |-> [i \in 1..Len(tabs) |->
                                      [tab    |-> tabs[i].name,
                                       groups |-> Get(tabs[i], "groups", <<>>)]],
                          categories |-> categories,
                          total_categories |-> Len(categories)]]
----------------------------------------------------------------------------

(* generate-endpoint-docs.py: the navigation listing and main.              *)

(* sorted(list) for a list of strings, from the i-th of its sorted values on *)
RECURSIVE sorted_from(_, _, _)
sorted_from(list, values, i) ==
    IF i > Len(values) THEN <<>>
    ELSE [k \in 1..Cardinality({j \in 1..Len(list) : list[j] = values[i]}) |-> values[i]]
         \o sorted_from(list, values, i + 1)

sorted_list(list) == sorted_from(list, sorted(Range(list)), 1)

(* category_names: the dict from file stem to display name, from item i of
   the categories of the index on *)
RECURSIVE category_names(_, _, _)
category_names(categories, i, names) ==
    IF i > Len(categories) THEN names
    ELSE category_names(categories, i + 1,
             dict_set(names,
                      Replace(Replace(Lower(categories[i]), " webservice", ""), " ", "-"),
                      Replace(categories[i], " Webservice", "")))

(* names.get(key, default) on a dict kept as the sequence of its items *)
dict_get(d, key, default) ==
    LET hit == {i \in 1..Len(d) : d[i].key = key}
    IN  IF hit = {} THEN default ELSE d[CHOOSE i \in hit : TRUE].value

(* the loop over sorted(all_endpoints.items()), from the i-th key on *)
RECURSIVE nav_groups(_, _, _, _)
nav_groups(all_endpoints, keys, i, names) ==
    IF i > Len(keys) THEN <<>>
    ELSE LET category     == keys[i]
             endpoints    == dict_get(all_endpoints, category, <<>>)
             display_name == dict_get(names, category, Title(Replace(category, "-", " ")))
             pages        == sorted_list([k \in 1..Len(endpoints) |-> endpoints[k].value])
         IN  (IF pages # <<>>
              THEN <<Group(display_name, [k \in 1..Len(pages) |-> Leaf(pages[k])])>>
              ELSE <<>>)
             \o nav_groups(all_endpoints, keys, i + 1, names)

(* generate_navigation_structure: open and json.load of _index.json raise
   when the file is absent or incomplete *)
generate_navigation_structure(all_endpoints, index) ==
    IF ~Loadable(index) THEN [raised |-> TRUE]
    ELSE [raised |-> FALSE,
          value  |-> nav_groups(all_endpoints,
                         sorted({all_endpoints[i].key : i \in 1..Len(all_endpoints)}), 1,
                         category_names(Get(json_load(index), "categories", <<>>), 1, <<>>))]

(* the loop of main over the sorted category files, from the i-th on *)
RECURSIVE process_files(_, _, _, _, _, _)
process_files(files, names, i, unwritable, written, all_endpoints) ==
    IF i > Len(names)
    THEN [raised |-> FALSE, written |-> written, all_endpoints |-> all_endpoints]
    ELSE LET category_file == CHOOSE f \in files : f.name = names[i]
             stem == PathStem(category_file.name)
             r    == process_category_file(stem, category_file.paths, unwritable)
         IN  IF r.raised
             THEN [raised |-> TRUE, written |-> written \o r.written,
                   all_endpoints |-> all_endpoints]
             ELSE process_files(files, names, i + 1, unwritable, written \o r.written,
                      IF r.value # <<>> THEN dict_set(all_endpoints, stem, r.value)
                                        ELSE all_endpoints)

(* a variant that opens _navigation.json for writing before it builds the
   structure *)
write_navigation_early(all_endpoints, index, nav) ==
    LET n == generate_navigation_structure(all_endpoints, index)
    IN  IF n.raised THEN [raised |-> TRUE, nav |-> Partial]
        ELSE [raised |-> FALSE, nav |-> json_dump(n.value)]

(* nav_structure = generate_navigation_structure(all_endpoints), then
   json.dump(nav_structure, f, indent=2) to _navigation.json *)
write_navigation(all_endpoints, index, nav) ==
    LET n == generate_navigation_structure(all_endpoints, index)
    IN  IF n.raised THEN [raised |-> TRUE, nav |-> nav]
        ELSE [raised |-> FALSE, nav |-> json_dump(n.value)]

(* main of generate-endpoint-docs.py: how it ends, the page files it writes,
   and _navigation.json afterwards *)
generator_main(split, unwritable, nav) ==
    LET category_files == {f \in split.files : ~StartsWith(f.name, "_")}
        p == process_files(category_files, sorted({f.name : f \in category_files}),
                           1, unwritable, <<>>, <<>>)
        w == write_navigation(p.all_endpoints, split.index, nav)
    IN  IF category_files = {}
        THEN [result |-> "no_files", written |-> <<>>, nav |-> nav]
        ELSE IF p.raised
        THEN [result |-> "raised", written |-> p.written, nav |-> nav]
        ELSE [result |-> IF w.raised THEN "raised" ELSE "written",
              written |-> p.written, nav |-> w.nav]

(* a run of generate-endpoint-docs.py *)
Generate ==
    /\ pc = "idle"
    /\ runs < MaxRuns
    /\ runs' = runs + 1
    /\ script' = "generate"
    /\ prev' = [script |-> script, result |-> result]
    /\ older' = IF script = "none" THEN Absent ELSE pre
    /\ pre' = docs_json
    /\ pre_nav' = nav_json
    /\ LET r == generator_main(split_dir, page_files.unwritable, nav_json)
       IN  /\ result' = r.result
           /\ nav_json' = r.nav
           /\ page_files' = [page_files EXCEPT !.written = @ \o r.written]
    /\ UNCHANGED <<docs_json, backup_json, pc, docs_data, endpoint_nav, kills,
                   split_dir, callvars>>
----------------------------------------------------------------------------

(* Direct calls of the pure functions, on arguments drawn from small sets.  *)

(* pages of every action type, one with upper case, one with keywords of two
   types, one whose stem is that of another under the category 'upload', and
   an entry that is a group, not a string *)
PagePool ==
    {page_of("camera", StemPool[i]) : i \in {1, 2, 4, 5, 6, 10}}
    \cup {page_of("upload", StemPool[4])}
    \cup {Group("Create & Add", <<page_of("camera", StemPool[1])>>)}

(* every member name of the table, every service name, and names that are in
   no list: other case, a part of a member name, a longer name, the empty name *)
GroupNames ==
    UNION {Range(SERVICE_GROUPS[i].groups) : i \in 1..Len(SERVICE_GROUPS)}
    \cup {SERVICE_GROUPS[i].service : i \in 1..Len(SERVICE_GROUPS)}
    \cup {"Other Services", "camera", "CAMERA", "Widget", "Cam", "Camera ", "Org Chart", ""}

(* endpoint paths: the usual shape, '/api/' a second time, '/api/' not at
   the start, no '/api/', upper case, characters outside [a-z0-9-] *)
PathPool ==
    {"/api/camera/getCameraList", "/api/camera/api/list", "/v2/api/ping",
     "camera/list", "/API/Door/Open", "/api/user/{userUuid}/get_Info.v2",
     "/api/", ""}

(* the dict {key: opt[1]}, or the empty dict when opt is <<>> *)
Field(key, opt) == IF opt = <<>> THEN EmptyDict ELSE key :> opt[1]

(* an operation of a path item, with the fields that are given *)
Operation(summary, description, deprecated) ==
    Field("summary", summary) @@ Field("description", description)
    @@ Field("deprecated", deprecated)

(* a text of n characters that differ from one position to the next *)
Text(n) ==
    LET line == LowerLetters \o "0123456789"
    IN  SubSeq(line \o line \o line \o line \o line \o line, 1, n)

(* path items for get_method_and_summary: every set of keys among the five
   methods and 'parameters', each operation with its own texts, and
   operations that lack the summary, the description or the flag *)
PathItems ==
    {[k \in keys |->
        IF k = "parameters" THEN <<>>
        ELSE Operation(<<k \o " summary">>, <<k \o " description">>,
                       <<k = "delete" \/ k = "get">>)] :
        keys \in SUBSET (Range(Methods) \cup {"parameters"})}
    \cup {[put |-> Operation(s, d, <<>>)] :
             s \in {<<>>, <<"Reboot">>}, d \in {<<>>, <<"Reboots it.">>}}

(* the lengths of the texts: short ones, and the lengths around the limit *)
TextLens == {1, 157, 159, 160, 161, 163, 200}

(* arguments of generate_mdx_content: a path (one of them long), an item
   with zero, one or two methods whose summary and description are absent,
   empty, short or of a length of TextLens, and a category *)
PageArgs ==
    {[path |-> p, endpoint_data |-> [k \in keys |-> Operation(s, d, dep)],
      category |-> c] :
        p \in {"/api/camera/getCameraList", "/v2/api/ping", "camera/list",
               "/api/" \o Text(150)},
        keys \in {{}, {"post"}, {"get", "patch"}},
        s \in {<<>>, <<"">>, <<"List cameras">>, <<Text(161)>>},
        d \in {<<>>, <<"">>, <<"List cameras">>} \cup {<<Text(n)>> : n \in TextLens},
        dep \in {<<>>, <<TRUE>>},
        c \in {"camera", "widget"}}

(* the paths of a category file: two that get the same file name, and a
   third *)
PathEntries ==
    {[key |-> "/api/camera/getCameraList",
      value |-> [get |-> Operation(<<"List cameras">>, <<>>, <<>>)]],
     [key |-> "/api/camera/GetCameraList",
      value |-> [post |-> Operation(<<"List cameras (v2)">>, <<>>, <<>>)]],
     [key |-> "/api/camera/create",
      value |-> [post |-> Operation(<<"Create camera">>, <<"Creates it.">>, <<>>)]]}

(* arguments of process_category_file: a 'paths' dict (its keys differ), and
   the page files that cannot be opened for writing *)
CategoryArgs ==
    {[category |-> "camera", paths |-> q, unwritable |-> u] :
        q \in {q \in SeqsUpTo(PathEntries, MaxPages) :
                  \A i, j \in 1..Len(q) : q[i].key = q[j].key => i = j},
        u \in SUBSET {ENDPOINT_DIR \o "/camera/camera-getcameralist.mdx",
                      ENDPOINT_DIR \o "/camera/camera-create.mdx"}}

(* a page file of a category directory *)
PageFile(name, icon, readable, writable) ==
    [name |-> name, icon |-> icon, readable |-> readable, writable |-> writable]

(* entries of ENDPOINT_DIR for process_endpoint_icons: a category directory
   with three pages (each may be unreadable or unwritable; one has the icon
   it should have) and a file that is no page, a second category directory,
   a hidden directory and a plain file *)
IconArgs ==
    {{[name |-> "camera", is_dir |-> TRUE,
       files |-> {PageFile("camera-createcamera.mdx", <<"circle-dot">>, r1, w1),
                  PageFile("camera-getcameralist.mdx", <<"eye">>, r2, TRUE),
                  PageFile("camera-reboot.mdx", <<"circle-dot">>, TRUE, w3),
                  PageFile("notes.txt", <<>>, TRUE, TRUE)}],
      [name |-> "user", is_dir |-> TRUE,
       files |-> {PageFile("user-Update_User.mdx", i4, TRUE, w4)}],
      [name |-> ".cache", is_dir |-> TRUE,
       files |-> {PageFile("x-getx.mdx", <<"circle-dot">>, TRUE, TRUE)}],
      [name |-> "_navigation.json", is_dir |-> FALSE, files |-> {}]} :
        r1, w1, r2, w3, w4 \in BOOLEAN, i4 \in {<<>>, <<"user">>}}

(* documents for the summarizer: with nested groups and groups of one name,
   without 'navigation', without 'tabs', with a tab without 'groups',
   without 'name', and with a group that has no name *)
SummaryDocs ==
    {Document("Rhombus", <<GuidesTab, Tab("API reference",
         <<intro_group,
           Group("Camera", <<Leaf("a"), Group("Get & Find", <<Leaf("b"), Leaf("c")>>)>>),
           Group("User", <<Group("Get & Find", <<Leaf("d")>>)>>)>>)>>),
     [name |-> "Rhombus"],
     [name |-> "Rhombus", navigation |-> EmptyDict],
     [name |-> "Rhombus", navigation |-> [tabs |-> <<[tab |-> "Guides"], GuidesTab>>]],
     [navigation |-> [tabs |-> <<GuidesTab>>]],
     Document("Rhombus", <<Tab("API reference", <<[pages |-> <<Leaf("a")>>]>>)>>)}

(* the endpoint directory: absent, empty, with categories *)
EndpointDirs ==
    {<<>>, <<{}>>,
     <<{[name |-> "access-control", is_dir |-> TRUE,
         files |-> {PageFile("access-control-getdoors.mdx", <<"eye">>, TRUE, TRUE),
                    PageFile("access-control-unlock.mdx", <<"eye">>, TRUE, TRUE)}],
        [name |-> "camera", is_dir |-> TRUE,
         files |-> {PageFile("camera-reboot.mdx", <<"video">>, TRUE, TRUE)}],
        [name |-> "empty", is_dir |-> TRUE, files |-> {}],
        [name |-> "_navigation.json", is_dir |-> FALSE, files |-> {}]}>>}

(* the inputs of a report: docs.json and the endpoint directory *)
SummaryArgs ==
    {[docs |-> d, endpoint_dir |-> e] :
        d \in {Absent, Partial} \cup {JsonFile(st, doc) : st \in Styles, doc \in SummaryDocs},
        e \in EndpointDirs}

(* docs.json for analyze_docs_json: flat categories, the categories after an
   accordion merge (two of them get a sub-group 'Get & Find'), and the
   categories after a service-level merge *)
AnalyzeArgs ==
    {json_dump(Document("Rhombus", <<GuidesTab, Tab("API reference", g)>>)) :
        g \in {<<intro_group, Group("Camera", pages_of("camera", 3)),
                               Group("Door", pages_of("door", 1))>>,
               accordion_groups(<<intro_group,
                                  Group("Camera", pages_of("camera", Threshold + 2)),
                                  Group("User", pages_of("user", Threshold + 1)),
                                  Group("Door", pages_of("door", 1))>>),
               service_groups(<<intro_group, Group("Camera", pages_of("camera", 2)),
                                             Group("Event", pages_of("event", 1))>>)}}

(* the arguments of the direct calls, by function *)
Args ==
    [f \in {"categorize_group", "sanitize_filename", "get_method_and_summary",
            "generate_mdx_content", "process_category_file",
            "process_endpoint_icons", "generate_llms_txt",
            "generate_llms_full_txt", "analyze_docs_json"} |->
        CASE f = "categorize_group" -> GroupNames
          [] f = "sanitize_filename" -> PathPool
          [] f = "get_method_and_summary" -> PathItems
          [] f = "generate_mdx_content" -> PageArgs
          [] f = "process_category_file" -> CategoryArgs
          [] f = "process_endpoint_icons" -> IconArgs
          [] f \in {"generate_llms_txt", "generate_llms_full_txt"} -> SummaryArgs
          [] f = "analyze_docs_json" -> AnalyzeArgs]

InitCalls ==
    /\ docs_json = Absent
    /\ backup_json = Absent
    /\ nav_json = Absent
    /\ script = "none"
    /\ pc = "idle"
    /\ docs_data = NoData
    /\ endpoint_nav = NoData
    /\ result = "none"
    /\ pre = Absent
    /\ prev = [script |-> "none", result |-> "none"]
    /\ older = Absent
    /\ runs = 0
    /\ kills = 0
    /\ pages_out = NotCalled
    /\ ret = NotCalled
    /\ split_dir = NoSplit
    /\ page_files = NoPages
    /\ pre_nav = Absent
    /\ \/ /\ fn = "categorize_endpoints"
          /\ pages_in \in SeqsUpTo(PagePool, MaxPages)
          /\ arg = <<>>
       \/ /\ fn \in DOMAIN Args
          /\ pages_in = <<>>
          /\ arg \in Args[fn]

(* pages_out = categorize_endpoints(pages_in) *)
CallCategorize ==
    /\ fn = "categorize_endpoints"
    /\ pages_out = NotCalled
    /\ pages_out' = IF categorize_raises(pages_in)
                    THEN [called |-> TRUE, raised |-> TRUE, items |-> <<>>]
                    ELSE [called |-> TRUE, raised |-> FALSE,
                          items |-> categorize_endpoints(pages_in)]
    /\ UNCHANGED <<filevars, runvars, genvars, pages_in, fn, arg, ret>>

(* a call f(arg) that returns value *)
Returns(f, value) ==
    /\ fn = f
    /\ ret = NotCalled
    /\ ret' = [called |-> TRUE, value |-> value]
    /\ UNCHANGED <<filevars, runvars, genvars, pages_in, pages_out, fn, arg>>

(* ret = categorize_group(arg) *)
CallCategorizeGroup == Returns("categorize_group", categorize_group(arg))

(* ret = sanitize_filename(arg) *)
CallSanitize == Returns("sanitize_filename", sanitize_filename(arg))

(* ret = get_method_and_summary(arg) *)
CallGetMethod == Returns("get_method_and_summary", get_method_and_summary(arg))

(* ret = generate_mdx_content(path, endpoint_data, category) *)
CallGenerateMdx ==
    Returns("generate_mdx_content",
            generate_mdx_content(arg.path, arg.endpoint_data, arg.category))

(* a call f(arg) that ends as outcome says: by a return or by an exception,
   with the files it wrote *)
Ends(f, outcome) ==
    /\ fn = f
    /\ ret = NotCalled
    /\ ret' = [called |-> TRUE] @@ outcome
    /\ UNCHANGED <<filevars, runvars, genvars, pages_in, pages_out, fn, arg>>

(* process_category_file(category_file) *)
CallProcessCategory ==
    Ends("process_category_file",
         process_category_file(arg.category, arg.paths, arg.unwritable))

(* process_endpoint_icons() *)
CallProcessIcons == Ends("process_endpoint_icons", process_endpoint_icons(arg))

(* LLMSFileGenerator.generate_llms_txt() *)
CallLlmsTxt ==
    Ends("generate_llms_txt", generate_llms_txt(arg.docs, arg.endpoint_dir))

(* LLMSFileGenerator.generate_llms_full_txt() *)
CallLlmsFullTxt ==
    Ends("generate_llms_full_txt", generate_llms_full_txt(arg.docs, arg.endpoint_dir))

(* LLMSFileGenerator.analyze_docs_json() *)
CallAnalyze == Ends("analyze_docs_json", analyze_docs_json(arg))

NextCalls ==
    \/ CallCategorize
    \/ CallCategorizeGroup
    \/ CallSanitize
    \/ CallGetMethod
    \/ CallGenerateMdx
    \/ CallProcessCategory
    \/ CallProcessIcons
    \/ CallLlmsTxt
    \/ CallLlmsFullTxt
    \/ CallAnalyze

SpecCalls == InitCalls /\ [][NextCalls]_vars

----------------------------------------------------------------------------
(* The generator and update-docs-navigation.py as a pipeline.               *)

(* a category file of the split directory *)
CategoryFile(name, paths) == [name |-> name, paths |-> paths]

(* the split directory: with and without _index.json; without category
   files, with one, and with two, one of them not named in the index and one
   file that is no category file *)
SplitDirs ==
    {[index |-> i, files |-> f] :
        i \in {Absent, JsonFile("indent2",
                 [categories |-> <<"Camera Webservice", "Access Control Webservice">>])},
        f \in {{},
               {CategoryFile("camera.json",
                   <<CHOOSE e \in PathEntries : e.key = "/api/camera/getCameraList",
                     CHOOSE e \in PathEntries : e.key = "/api/camera/create">>)},
               {CategoryFile("camera.json",
                   <<CHOOSE e \in PathEntries : e.key = "/api/camera/create">>),
                CategoryFile("door-access.json",
                   <<[key |-> "/api/door/unlock",
                      value |-> [post |-> Operation(<<"Unlock">>, <<>>, <<>>)]]>>),
                CategoryFile("empty.json", <<>>),
                CategoryFile("_base.json", <<>>)}}}

(* the documents of the pipeline: one with the 'API reference' tab and one
   without it *)
InitGen ==
    /\ docs_json \in {JsonFile("indent2", d) :
                        d \in {Document("Rhombus", <<GuidesTab>>),
                               Document("Rhombus", <<GuidesTab,
                                   Tab("API reference", <<intro_group>>)>>)}}
    /\ backup_json = Absent
    /\ nav_json \in {Absent, json_dump(NavList)}
    /\ script = "none"
    /\ pc = "idle"
    /\ docs_data = NoData
    /\ endpoint_nav = NoData
    /\ result = "none"
    /\ pre = docs_json
    /\ prev = [script |-> "none", result |-> "none"]
    /\ older = Absent
    /\ runs = 0
    /\ kills = 0
    /\ pages_in = <<>>
    /\ pages_out = NotCalled
    /\ fn = "none"
    /\ arg = <<>>
    /\ ret = NotCalled
    /\ split_dir \in SplitDirs
    /\ page_files \in {[written |-> <<>>, unwritable |-> u] :
                         u \in {{}, {ENDPOINT_DIR \o "/camera/camera-create.mdx"}}}
    /\ pre_nav = nav_json

(* the generator and update-docs-navigation.py, run in any order *)
NextGen ==
    \/ Generate
    \/ Start("regenerate")
    \/ OpenBackup
    \/ WriteBackup
    \/ LoadNav
    \/ Merge
    \/ OpenDocs
    \/ WriteDocs
    \/ Kill

SpecGen == InitGen /\ [][NextGen]_vars

---------------------------------------------------------------------------
(* Chains of merges: the three scripts run one after the other, each run to
   its end, on a document with flat categories.                             *)

(* eleven categories of one service, a page each *)
WideCats ==
    [i \in 1..(Threshold + 1) |->
        Group(SERVICE_GROUPS[1].groups[i], <<page_of("core", StemPool[i])>>)]

(* the groups of the 'API reference' tab: none, the intro alone, the intro
   with categories of the palette, the intro with the eleven categories *)
ChainGroups ==
    {<<>>, <<intro_group>> \o WideCats}
    \cup {<<intro_group>> \o cats : cats \in SeqsUpTo(PaletteCats, MaxCats)}

InitChain ==
    /\ docs_json \in {json_dump(Document("Rhombus", <<GuidesTab, Tab("API reference", g)>>)) :
                        g \in ChainGroups}
    /\ backup_json = Absent
    /\ nav_json \in {Absent, json_dump(NavList)}
    /\ script = "none"
    /\ pc = "idle"
    /\ docs_data = NoData
    /\ endpoint_nav = NoData
    /\ result = "none"
    /\ pre = docs_json
    /\ prev = [script |-> "none", result |-> "none"]
    /\ older = Absent
    /\ runs = 0
    /\ kills = 0
    /\ pages_in = <<>>
    /\ pages_out = NotCalled
    /\ fn = "none"
    /\ arg = <<>>
    /\ ret = NotCalled
    /\ split_dir = NoSplit
    /\ page_files = NoPages
    /\ pre_nav = nav_json

(* a run of script s starts, in a chain of at most MaxChain runs *)
StartChain(s) == runs < MaxChain /\ Load(s)

NextChain ==
    \/ \E s \in Scripts : StartChain(s)
    \/ OpenBackup
    \/ WriteBackup
    \/ LoadNav
    \/ Merge
    \/ OpenDocs
    \/ WriteDocs

SpecChain == InitChain /\ [][NextChain]_vars

---------------------------------------------------------------------------

(* Properties.                                                              *)

(* a is b with some elements left out, the others in their order *)
RECURSIVE IsSubseq(_, _)
IsSubseq(a, b) ==
    IF a = <<>> THEN TRUE
    ELSE IF b = <<>> THEN FALSE
    ELSE IF Head(a) = Head(b) THEN IsSubseq(Tail(a), Tail(b))
    ELSE IsSubseq(a, Tail(b))

Count(x, q) == Cardinality({i \in 1..Len(q) : q[i] = x})

RECURSIVE Sum(_)
Sum(q) == IF q = <<>> THEN 0 ELSE Head(q) + Sum(Tail(q))

(* lists is a partition of whole: every element of whole is in the lists as
   often as in whole, and nothing else is *)
IsPartition(lists, whole) ==
    /\ Sum([i \in 1..Len(lists) |-> Len(lists[i])]) = Len(whole)
    /\ \A x \in Range(whole) :
           Sum([i \in 1..Len(lists) |-> Count(x, lists[i])]) = Count(x, whole)

(* the last run got past the load of docs.json and ended by itself *)
RunEnded ==
    /\ pc = "idle"
    /\ result \in {"written", "no_tab", "raised"}
    /\ Loadable(pre)

(* the last run wrote docs.json *)
RunWrote == pc = "idle" /\ result = "written"

(* C1: after a run of any of the three scripts, docs.json.backup equals, byte
   for byte, the content docs.json had before that run. *)
C1_BackupIsByteCopy == RunEnded => backup_json = pre

(* C2: when the document has no 'API reference' tab, the run leaves the bytes
   of docs.json unchanged and ends by raising an error, not as a normal run. *)
C2_MissingTabRaises ==
    (RunEnded /\ find_api_tab(json_load(pre)) = 0)
        => (docs_json = pre /\ result = "raised")

(* C3: element 0 of the 'API reference' tab's groups after a run is identical
   to element 0 of that tab's groups before the run. *)
C3_IntroPreserved ==
    (RunWrote /\ api_groups(json_load(pre)) # <<>>)
        => api_groups(json_load(docs_json))[1] = api_groups(json_load(pre))[1]

(* C4: a second run of organize_with_service_groups on the docs.json its first
   run produced yields a docs.json identical to the one after the first run. *)
C4_ServiceIdempotent ==
    (RunWrote /\ script = "service" /\ prev = [script |-> "service", result |-> "written"])
        => docs_json = pre

(* C5: the regenerate merge (with an unchanged _navigation.json) and the
   accordion merge are idempotent: a run of the same script right after a
   run of it leaves docs.json byte-identical to what the first run left. *)
C5_RegenerateAccordionIdempotent ==
    (/\ RunEnded
     /\ script \in {"regenerate", "accordion"}
     /\ prev.script = script
     /\ prev.result \in {"written", "no_tab", "raised"})
        => docs_json = pre

C5_Witness ==
    /\ RunWrote
    /\ script = "accordion"
    /\ prev = [script |-> "accordion", result |-> "written"]
    /\ \E i \in 2..Len(api_groups(json_load(docs_json))) :
           \E j \in 1..Len(api_groups(json_load(docs_json))[i].pages) :
               IsDict(api_groups(json_load(docs_json))[i].pages[j])

(* C6: a merge run changes only the groups list of the (first) 'API
   reference' tab: every other tab and every other field of the document has
   the same value after the run as before; a run that does not reach the
   final write changes nothing in docs.json. *)
C6_OnlyApiGroupsChange ==
    /\ (RunEnded /\ result # "written") => docs_json = pre
    /\ RunWrote =>
         LET a == json_load(pre)
             b == json_load(docs_json)
             k == find_api_tab(a)
         IN  /\ DOMAIN b = DOMAIN a
             /\ b.name = a.name
             /\ DOMAIN b.navigation = DOMAIN a.navigation
             /\ Len(b.navigation.tabs) = Len(a.navigation.tabs)
             /\ \A i \in 1..Len(a.navigation.tabs) :
                    IF i = k
                    THEN /\ DOMAIN b.navigation.tabs[i] = DOMAIN a.navigation.tabs[i]
                         /\ b.navigation.tabs[i].tab = a.navigation.tabs[i].tab
                    ELSE b.navigation.tabs[i] = a.navigation.tabs[i]

C6_Witness ==
    /\ RunWrote
    /\ json_load(docs_json) # json_load(pre)
    /\ Len(json_load(docs_json).navigation.tabs) = 3
    /\ json_load(docs_json).navigation.tabs[3] = SecondApiTab

(* C7: the backup is complete before docs.json is opened for writing.  While
   the backup is incomplete docs.json still has its pre-run bytes; whenever
   docs.json differs from its pre-run bytes (truncated, or rewritten) the
   backup is a complete JSON file holding the pre-run document.  So a run
   interrupted at any step leaves the pre-run document in one of the two. *)
C7_BackupBeforeOverwrite ==
    /\ pc \in {"loaded", "backup_open"} => docs_json = pre
    /\ (pc = "docs_open" \/ docs_json # pre) =>
           /\ Loadable(pre)
           /\ Loadable(backup_json)
           /\ json_load(backup_json) = json_load(pre)

C7_Witness ==
    /\ pc = "idle"
    /\ result = "killed"
    /\ docs_json = Partial
    /\ Loadable(backup_json)
    /\ json_load(backup_json) = json_load(pre)

(* C8: service-level grouping is a stable partition: every group after the
   intro of the input is in exactly one emitted service group, none dropped
   and none duplicated, and inside each emitted service group the categories
   keep the relative order they had in the input. *)
C8_ServiceStablePartition ==
    (RunWrote /\ script = "service") =>
        LET existing == Tail(api_groups(json_load(pre)))
            emitted  == Tail(api_groups(json_load(docs_json)))
            lists    == [i \in 1..Len(emitted) |-> emitted[i].pages]
        IN  /\ IsPartition(lists, existing)
            /\ \A i \in 1..Len(lists) : IsSubseq(lists[i], existing)

C8_Witness ==
    /\ RunWrote
    /\ script = "service"
    /\ Len(api_groups(json_load(docs_json))) = 2
    /\ api_groups(json_load(docs_json))[2].group = "Core Services"
    /\ Len(api_groups(json_load(docs_json))[2].pages) = 2
    /\ api_groups(json_load(docs_json))[2].pages[1].group = "User"
    /\ api_groups(json_load(docs_json))[2].pages[2].group = "Camera"

(* C9: in the accordion merge a category with at most 10 pages is emitted
   unchanged, and a category with 11 or more pages is emitted under its name
   as a list of sub-groups of pages whose page counts add up to the
   category's page count. *)
C9_AccordionThreshold ==
    (RunWrote /\ script = "accordion") =>
        LET before == api_groups(json_load(pre))
            after  == api_groups(json_load(docs_json))
        IN  /\ Len(after) = IF before = <<>> THEN 1 ELSE Len(before)
            /\ \A i \in 2..Len(before) :
                   IF Len(before[i].pages) <= 10
                   THEN after[i] = before[i]
                   ELSE /\ after[i].group = before[i].group
                        /\ \A j \in 1..Len(after[i].pages) :
                               /\ IsDict(after[i].pages[j])
                               /\ \A n \in 1..Len(after[i].pages[j].pages) :
                                      IsStr(after[i].pages[j].pages[n])
                        /\ Sum([j \in 1..Len(after[i].pages) |->
                                   Len(after[i].pages[j].pages)]) = Len(before[i].pages)

C9_Witness ==
    /\ RunWrote
    /\ script = "accordion"
    /\ Len(api_groups(json_load(pre))) = 3
    /\ Len(api_groups(json_load(pre))[2].pages) = 10
    /\ Len(api_groups(json_load(pre))[3].pages) = 11
    /\ Len(api_groups(json_load(docs_json))[3].pages) = 5

(* the order of the buckets that C10 states *)
C10_Order == <<"Create & Add", "Get & Find", "Update & Modify", "Delete & Remove",
               "Other Operations">>

(* C10: categorize_endpoints returns a stable partition of its input pages:
   every page is in exactly one bucket, pages keep their input order inside a
   bucket, the buckets come in the order Create & Add, Get & Find, Update &
   Modify, Delete & Remove, Other Operations, and a bucket that received no
   page is absent. *)
C10_CategorizeStablePartition ==
    (pages_out.called /\ ~pages_out.raised) =>
        LET items == pages_out.items
            lists == [i \in 1..Len(items) |-> items[i].value]
            keys  == [i \in 1..Len(items) |-> items[i].key]
        IN  /\ IsPartition(lists, pages_in)
            /\ \A i \in 1..Len(lists) : lists[i] # <<>> /\ IsSubseq(lists[i], pages_in)
            /\ IsSubseq(keys, C10_Order)

C10_Witness ==
    /\ pages_out.called
    /\ ~pages_out.raised
    /\ Len(pages_in) = 3
    /\ Len(pages_out.items) = 2
    /\ pages_out.items[1].key = "Get & Find"
    /\ Len(pages_out.items[1].value) = 2
    /\ pages_out.items[2].key = "Other Operations"
    /\ pages_in[2] = pages_out.items[2].value[1]

(* the services whose member list holds the name, by exact comparison *)
C11_Holders(name) ==
    {SERVICE_GROUPS[i].service : i \in {k \in 1..Len(SERVICE_GROUPS) :
                                           name \in Range(SERVICE_GROUPS[k].groups)}}

(* C11: categorize_group maps every name to exactly one bucket: the service
   whose member list holds the name by exact, case-sensitive match, or
   'Other Services' when no list holds it; no name is in two lists, so the
   result does not depend on the order in which the services are tried. *)
C11_CategorizeGroupExact ==
    (fn = "categorize_group" /\ ret.called) =>
        /\ Cardinality(C11_Holders(arg)) <= 1
        /\ IF C11_Holders(arg) = {}
           THEN ret.value = "Other Services"
           ELSE ret.value \in C11_Holders(arg)

C11_Witness ==
    /\ fn = "categorize_group"
    /\ ret.called
    /\ arg = "Org"
    /\ ret.value = "Organization & Management"

(* the derivation the claim gives: strip the leading '/api/', lower-case,
   '/' to '-', delete what is outside [a-z0-9-] *)
C12_Reference(path) ==
    LET stripped == IF Len(path) >= 5 /\ SubSeq(path, 1, 5) = "/api/"
                    THEN SubSeq(path, 6, Len(path)) ELSE path
    IN  SubFrom(Replace(Lower(stripped), "/", "-"), 1)

(* C12: sanitize_filename(path) equals the reference derivation (strip the
   leading '/api/' prefix, lower-case, '/' to '-', delete every character
   outside [a-z0-9-]); the result holds only characters of [a-z0-9-]; and
   '/api/camera/getCameraList' yields 'camera-getcameralist'. *)
C12_SanitizeIsReference ==
    (fn = "sanitize_filename" /\ ret.called) =>
        /\ ret.value = C12_Reference(arg)
        /\ \A i \in 1..Len(ret.value) : Contains(FilenameChars, Char(ret.value, i))
        /\ (arg = "/api/camera/getCameraList") => (ret.value = "camera-getcameralist")

(* the text the description is made from: the description, else the summary,
   else the sentence that names the path *)
C13_Source ==
    LET t == get_method_and_summary(arg.endpoint_data)
    IN  IF t[3] # "" THEN t[3]
        ELSE IF t[2] # "" THEN t[2] ELSE "API endpoint for " \o arg.path

(* C13: the emitted description is the source text unchanged when its length
   is at most 160 characters (exactly 160 included), and otherwise its first
   157 characters followed by '...'; it never exceeds 160 characters. *)
C13_DescriptionTruncated ==
    (fn = "generate_mdx_content" /\ ret.called) =>
        /\ Len(C13_Source) <= 160 => ret.value.description = C13_Source
        /\ Len(C13_Source) > 160 =>
              /\ SubSeq(ret.value.description, 1, 157) = SubSeq(C13_Source, 1, 157)
              /\ SubSeq(ret.value.description, 158, 160) = "..."
              /\ Len(ret.value.description) = 160
        /\ Len(ret.value.description) <= 160

C13_Witness ==
    /\ fn = "generate_mdx_content"
    /\ ret.called
    /\ Len(C13_Source) = 200
    /\ Len(ret.value.description) = 160

(* the methods of the priority list that are keys of the path item *)
C14_Present == {i \in 1..5 : <<"get", "post", "put", "delete", "patch">>[i] \in DOMAIN arg}

(* C14: get_method_and_summary returns the first method of the priority list
   get, post, put, delete, patch that is a key of the path item, with that
   operation's summary, description and deprecated flag; when none of the
   five is present it returns POST, empty summary, empty description and
   deprecated false. *)
C14_FirstMethodWins ==
    (fn = "get_method_and_summary" /\ ret.called) =>
        IF C14_Present = {}
        THEN ret.value = <<"POST", "", "", FALSE>>
        ELSE LET first == CHOOSE i \in C14_Present : \A j \in C14_Present : i <= j
                 name  == <<"get", "post", "put", "delete", "patch">>[first]
                 op    == arg[name]
             IN  /\ ret.value[1] = <<"GET", "POST", "PUT", "DELETE", "PATCH">>[first]
                 /\ ret.value[2] = (IF "summary" \in DOMAIN op THEN op.summary ELSE "")
                 /\ ret.value[3] = (IF "description" \in DOMAIN op THEN op.description ELSE "")
                 /\ ret.value[4] = (IF "deprecated" \in DOMAIN op THEN op.deprecated ELSE FALSE)

C14_Witness ==
    /\ fn = "get_method_and_summary"
    /\ ret.called
    /\ {"post", "delete", "patch"} \subseteq DOMAIN arg
    /\ "get" \notin DOMAIN arg
    /\ ret.value = <<"POST", "post summary", "post description", FALSE>>

(* C15 as stated: the title of an emitted endpoint page is the operation's
   summary when the summary is non-empty, and the raw, unmodified path
   string when the summary is empty. *)
C15_TitleRawPath ==
    (fn = "generate_mdx_content" /\ ret.called) =>
        LET summary == get_method_and_summary(arg.endpoint_data)[2]
        IN  ret.value.title = (IF summary # "" THEN summary ELSE arg.path)

(* C15, amended: the title is the operation's summary when the summary is
   non-empty, and otherwise the path with every '/api/' in it removed. *)
C15_TitleStrippedPath ==
    (fn = "generate_mdx_content" /\ ret.called) =>
        LET summary == get_method_and_summary(arg.endpoint_data)[2]
        IN  ret.value.title =
                (IF summary # "" THEN summary ELSE Replace(arg.path, "/api/", ""))

C15_Witness ==
    /\ fn = "generate_mdx_content"
    /\ ret.called
    /\ arg.path = "/api/camera/getCameraList"
    /\ get_method_and_summary(arg.endpoint_data)[2] = ""
    /\ ret.value.title = "camera/getCameraList"

(* the page files a call of process_category_file has to write *)
C16_PagesToWrite ==
    {ENDPOINT_DIR \o "/" \o arg.category \o "/" \o sanitize_filename(arg.paths[i].key) \o ".mdx" :
        i \in 1..Len(arg.paths)}

(* the page files a call of process_endpoint_icons has to visit *)
C16_PagesToVisit ==
    UNION {{ENDPOINT_DIR \o "/" \o d.name \o "/" \o g.name :
               g \in {f \in d.files : EndsWith(f.name, ".mdx")}} :
           d \in {e \in arg : e.is_dir /\ ~StartsWith(e.name, ".")}}

(* C16: a failure to read or write one page file does not abort the batch:
   in the page emitter loop (process_category_file) and in the icon update
   loop (process_endpoint_icons / update_endpoint_icon) the remaining items
   are still processed after one item's I/O fails. *)
C16_BatchContinues ==
    /\ (fn = "process_category_file" /\ ret.called) =>
          /\ ~ret.raised
          /\ \A p \in C16_PagesToWrite \ arg.unwritable :
                \E i \in 1..Len(ret.written) : ret.written[i].file = p
    /\ (fn = "process_endpoint_icons" /\ ret.called) =>
          /\ ~ret.raised
          /\ Range(ret.visited) = C16_PagesToVisit

(* the icon loop alone goes on after a failure *)
C16_IconLoopContinues ==
    (fn = "process_endpoint_icons" /\ ret.called) =>
        /\ ~ret.raised
        /\ Range(ret.visited) = C16_PagesToVisit

(* an input of the summarizer is missing: docs.json, the endpoint directory,
   or a section of the navigation document *)
C17_DocsAbsent == arg.docs = Absent
C17_DirAbsent == arg.endpoint_dir = <<>>
C17_SectionAbsent ==
    /\ arg.docs.kind = "json"
    /\ \/ "navigation" \notin DOMAIN arg.docs.data
       \/ "tabs" \notin DOMAIN arg.docs.data.navigation
       \/ \E i \in 1..Len(arg.docs.data.navigation.tabs) :
             "groups" \notin DOMAIN arg.docs.data.navigation.tabs[i]

(* what is there is sound: docs.json, when it exists, is complete JSON, and
   every group of its tabs has a name *)
C17_WellFormed ==
    /\ arg.docs # Partial
    /\ (arg.docs.kind = "json" /\ ~C17_SectionAbsent) =>
          \A i \in 1..Len(arg.docs.data.navigation.tabs) :
          \A j \in 1..Len(arg.docs.data.navigation.tabs[i].groups) :
              "group" \in DOMAIN arg.docs.data.navigation.tabs[i].groups[j]

(* C17: the summarizer is never fatal on missing inputs: when docs.json, the
   endpoint directory, or an expected section of the navigation document is
   absent, generate_llms_txt and generate_llms_full_txt both still return a
   report, with the affected counts equal to zero. *)
C17_SummarizerNeverFatal ==
    (/\ fn \in {"generate_llms_txt", "generate_llms_full_txt"}
     /\ ret.called
     /\ C17_WellFormed
     /\ C17_DocsAbsent \/ C17_DirAbsent \/ C17_SectionAbsent) =>
        /\ ~ret.raised
        /\ C17_DocsAbsent => ret.value.total_endpoints = 0
        /\ C17_DirAbsent => ret.value.categories = <<>>

(* C18: when a required input file is absent the operation aborts without
   writing its target document: update-docs-navigation leaves docs.json
   unmodified when _navigation.json cannot be loaded, and the endpoint
   generator does not write _navigation.json when _index.json cannot be
   loaded. *)
C18_AbortsWithoutWriting ==
    /\ (script = "regenerate" /\ ~Loadable(nav_json)) => docs_json = pre
    /\ (script = "generate" /\ ~Loadable(split_dir.index)) => nav_json = pre_nav

C18_Witness ==
    /\ script = "generate"
    /\ result = "raised"
    /\ ~Loadable(split_dir.index)
    /\ page_files.written # <<>>
    /\ prev = [script |-> "regenerate", result |-> "raised"]
    /\ backup_json # Absent
    /\ nav_json = Absent

(* the keys of SERVICE_GROUPS, in the order they are declared *)
C19_Declared == [i \in 1..Len(SERVICE_GROUPS) |-> SERVICE_GROUPS[i].service]

(* C19: organize_with_service_groups emits the service groups in the
   declared key order of SERVICE_GROUPS, whatever the order of the categories
   in the input, emits no service group that received no category, and emits
   'Other Services' as the last group exactly when at least one category
   matched no service. *)
C19_ServiceOrder ==
    (RunWrote /\ script = "service") =>
        LET existing == Tail(api_groups(json_load(pre)))
            emitted  == Tail(api_groups(json_load(docs_json)))
            names    == [i \in 1..Len(emitted) |-> emitted[i].group]
            other    == \E i \in 1..Len(existing) : C11_Holders(existing[i].group) = {}
            services == IF other THEN SubSeq(names, 1, Len(names) - 1) ELSE names
        IN  /\ IsSubseq(services, C19_Declared)
            /\ \A i, j \in 1..Len(names) : names[i] = names[j] => i = j
            /\ \A i \in 1..Len(emitted) : emitted[i].pages # <<>>
            /\ Range(services) =
                  UNION {C11_Holders(existing[i].group) : i \in 1..Len(existing)}
            /\ other <=> (names # <<>> /\ names[Len(names)] = "Other Services")

C19_Witness ==
    /\ RunWrote
    /\ script = "service"
    /\ Len(api_groups(json_load(pre))) = 3
    /\ api_groups(json_load(pre))[2].group = "Event"
    /\ api_groups(json_load(pre))[3].group = "Camera"
    /\ Len(api_groups(json_load(docs_json))) = 3
    /\ api_groups(json_load(docs_json))[2].group = "Core Services"
    /\ api_groups(json_load(docs_json))[3].group = "Events & Monitoring"

(* the keyword groups in the order they are tested, with their keywords *)
C20_Groups ==
    <<[name |-> "Create & Add", words |-> CreateWords],
      [name |-> "Get & Find", words |-> GetWords],
      [name |-> "Update & Modify", words |-> UpdateWords],
      [name |-> "Delete & Remove", words |-> DeleteWords]>>

(* the positions of the groups one of whose keywords is in the lower-cased
   file stem of the page *)
C20_Matching(page) ==
    {g \in 1..Len(C20_Groups) :
        \E w \in Range(C20_Groups[g].words) : Contains(Lower(PathStem(page.page)), w)}

(* C20: categorize_endpoints assigns a page to the first keyword group, in
   the order Create & Add, Get & Find, Update & Modify, Delete & Remove, one
   of whose keywords is a substring of the page's lower-cased file stem, and
   to Other Operations when no keyword of any group occurs; a stem with
   keywords of several groups goes to the earliest of them. *)
C20_FirstKeywordGroupWins ==
    (fn = "categorize_endpoints" /\ pages_out.called /\ ~pages_out.raised) =>
        \A i \in 1..Len(pages_out.items) :
        \A k \in 1..Len(pages_out.items[i].value) :
            LET page  == pages_out.items[i].value[k]
                match == C20_Matching(page)
            IN  pages_out.items[i].key =
                    (IF match = {} THEN "Other Operations"
                     ELSE C20_Groups[CHOOSE g \in match : \A h \in match : g <= h].name)

C20_Witness ==
    /\ fn = "categorize_endpoints"
    /\ pages_out.called
    /\ ~pages_out.raised
    /\ Len(pages_in) = 2
    /\ Cardinality(C20_Matching(pages_in[1])) = 2
    /\ C20_Matching(pages_in[2]) = {}
    /\ Len(pages_out.items) = 2
    /\ pages_out.items[1] = [key |-> "Create & Add", value |-> <<pages_in[1]>>]
    /\ pages_out.items[2] = [key |-> "Other Operations", value |-> <<pages_in[2]>>]

(* the stem of a page without its leading segment: the text after the first
   '-', the whole stem when it has none *)
C21_ActionPart(page) ==
    LET filename == PathStem(page.page)
        dash     == IndexOf(filename, "-")
    IN  IF dash > 0 THEN SubSeq(filename, dash + 1, Len(filename)) ELSE filename

(* the bucket in which a call of categorize_endpoints returned the page *)
C21_Bucket(page) ==
    LET items == pages_out.items
    IN  items[CHOOSE i \in 1..Len(items) : page \in Range(items[i].value)].key

(* C21: the bucket of a page does not depend on its category prefix: two pages
   of one call of categorize_endpoints whose stems differ only in the segment
   before the first '-' are returned in the same bucket. *)
C21_BucketIgnoresPrefix ==
    (pages_out.called /\ ~pages_out.raised) =>
        \A i, j \in 1..Len(pages_in) :
            C21_ActionPart(pages_in[i]) = C21_ActionPart(pages_in[j])
                => C21_Bucket(pages_in[i]) = C21_Bucket(pages_in[j])

(* the number of page entries (JSON strings) in the subtree of a node *)
RECURSIVE C22_Leaves(_)
C22_Leaves(node) ==
    IF IsStr(node) THEN 1
    ELSE Sum([i \in 1..Len(node.pages) |-> C22_Leaves(node.pages[i])])

(* the top-level groups of the navigation document, tab after tab *)
RECURSIVE C22_TopGroups(_, _)
C22_TopGroups(tabs, i) ==
    IF i > Len(tabs) THEN <<>> ELSE tabs[i].groups \o C22_TopGroups(tabs, i + 1)

(* C22: for every top-level group of the navigation document the count that
   count_endpoints_in_nav returns is the number of page entries in the
   group's subtree at any depth, and total_endpoints is the number of page
   entries of the document, also with nested groups and sub-groups of one
   name. *)
C22_CountsEveryLeaf ==
    (fn = "analyze_docs_json" /\ ret.called /\ ~ret.raised) =>
        LET top    == C22_TopGroups(json_load(arg).navigation.tabs, 1)
            counts == ret.value.endpoint_categories
        IN  /\ \A i \in 1..Len(top) :
                   dict_get(counts, top[i].group, -1) = C22_Leaves(top[i])
            /\ ret.value.total_endpoints
                   = Sum([i \in 1..Len(top) |-> C22_Leaves(top[i])])

(* on a document whose groups all hold page entries only, the counts are
   those of the claim *)
C22_FlatCounts ==
    (/\ fn = "analyze_docs_json" /\ ret.called /\ ~ret.raised
     /\ \A i \in 1..Len(C22_TopGroups(json_load(arg).navigation.tabs, 1)) :
            \A j \in 1..Len(C22_TopGroups(json_load(arg).navigation.tabs, 1)[i].pages) :
                IsStr(C22_TopGroups(json_load(arg).navigation.tabs, 1)[i].pages[j]))
        => C22_CountsEveryLeaf

(* the number of groups above the deepest page entry of a node *)
RECURSIVE C23_Depth(_)
C23_Depth(node) ==
    IF IsStr(node) THEN 0
    ELSE LET below == {C23_Depth(node.pages[i]) : i \in 1..Len(node.pages)}
         IN  1 + (IF below = {} THEN 0 ELSE CHOOSE d \in below : \A e \in below : e <= d)

(* C23: after any sequence of runs of the merger scripts no page entry of the
   'API reference' tab lies below more than three levels of groups (service,
   category, action type). *)
C23_NestingBounded ==
    (RunWrote /\ find_api_tab(json_load(docs_json)) # 0) =>
        \A i \in 1..Len(api_groups(json_load(docs_json))) :
            C23_Depth(api_groups(json_load(docs_json))[i]) <= 3

(* C24: an empty input is not an error: when the 'API reference' tab holds no
   group besides the intro (its groups list is the intro alone, or is empty),
   the service-level merge and the accordion merge end without raising and
   emit no group besides the intro. *)
C24_EmptyInputNotError ==
    (/\ RunEnded
     /\ script \in {"service", "accordion"}
     /\ find_api_tab(json_load(pre)) # 0
     /\ Len(api_groups(json_load(pre))) <= 1)
        => /\ result = "written"
           /\ Len(api_groups(json_load(docs_json))) <= 1

(* with the intro alone both merges write the intro alone; with an empty
   list the accordion merge writes its own intro *)
C24_IntroAloneOrAccordion ==
    (/\ RunEnded
     /\ script \in {"service", "accordion"}
     /\ find_api_tab(json_load(pre)) # 0
     /\ Len(api_groups(json_load(pre))) <= 1
     /\ (script = "service" => api_groups(json_load(pre)) # <<>>))
        => /\ result = "written"
           /\ Len(api_groups(json_load(docs_json))) = 1

(* the page file of the i-th path of the call *)
C25_File(i) ==
    ENDPOINT_DIR \o "/" \o arg.category \o "/" \o sanitize_filename(arg.paths[i].key) \o ".mdx"

(* two paths of the category file get the same identifier, and every page
   file can be written *)
C25_Collision ==
    /\ fn = "process_category_file"
    /\ ret.called
    /\ \E i, j \in 1..Len(arg.paths) : i # j /\ C25_File(i) = C25_File(j)
    /\ \A i \in 1..Len(arg.paths) : C25_File(i) \notin arg.unwritable

(* the content of a page file after the writes of the call *)
C25_ContentOf(file) ==
    LET w == {k \in 1..Len(ret.written) : ret.written[k].file = file}
    IN  ret.written[CHOOSE k \in w : \A n \in w : n <= k].content

(* the navigation listing generate_navigation_structure makes of the
   returned mapping *)
C25_Listing ==
    generate_navigation_structure(
        <<[key |-> arg.category, value |-> ret.value]>>,
        json_dump([categories |-> <<>>])).value

(* C25: when two paths of one category file produce the same identifier,
   process_category_file raises no error and prints no warning, the page file
   holds the content generated for the path processed last among those that
   share it, the returned mapping has one entry per path, and the navigation
   listing names the page once per colliding path. *)
C25_LastWriteWins ==
    C25_Collision =>
        /\ ~ret.raised
        /\ ~ret.warned
        /\ Len(ret.value) = Len(arg.paths)
        /\ Len(C25_Listing) = 1
        /\ Len(C25_Listing[1].pages) = Len(arg.paths)
        /\ \A i \in 1..Len(arg.paths) :
               LET same == {j \in 1..Len(arg.paths) : C25_File(j) = C25_File(i)}
                   last == CHOOSE j \in same : \A n \in same : n <= j
               IN  /\ C25_ContentOf(C25_File(i))
                          = generate_mdx_content(arg.paths[last].key,
                                                 arg.paths[last].value, arg.category)
                   /\ ret.value[i] = [key |-> arg.paths[i].key,
                                      value |-> nav_path_of(C25_File(i))]
                   /\ Count(Leaf(nav_path_of(C25_File(i))), C25_Listing[1].pages)
                          = Cardinality(same)

(* the two colliding paths, the one with the POST operation last, and a
   third path between them *)
C25_Witness ==
    /\ C25_Collision
    /\ Len(arg.paths) = 3
    /\ arg.paths[1].key = "/api/camera/getCameraList"
    /\ arg.paths[3].key = "/api/camera/GetCameraList"
    /\ C25_ContentOf(C25_File(1)).openapi = "POST /api/camera/GetCameraList"
    /\ Len(ret.written) = 3
    /\ Count(Leaf("api-reference/endpoint/camera/camera-getcameralist"),
             C25_Listing[1].pages) = 2

(* C26: only one backup generation is kept.  After a run that got past the
   load of docs.json (also one that ended on a missing tab or a missing
   input) docs.json.backup holds the document as it was just before that
   run; and once a later run has changed the document, the document that
   preceded the run before it is in neither file. *)
C26_OneBackupGeneration ==
    /\ RunEnded =>
           /\ Loadable(backup_json)
           /\ json_load(backup_json) = json_load(pre)
    /\ (/\ RunWrote
        /\ Loadable(older)
        /\ json_load(docs_json) # json_load(pre)
        /\ json_load(older) # json_load(pre)
        /\ json_load(older) # json_load(docs_json))
           => /\ Loadable(backup_json)
              /\ json_load(backup_json) # json_load(older)

(* two runs that both changed the document: three generations, the first
   one lost *)
C26_Witness ==
    /\ RunWrote
    /\ prev.result = "written"
    /\ Loadable(older)
    /\ json_load(older) # json_load(pre)
    /\ json_load(older) # json_load(docs_json)
    /\ json_load(docs_json) # json_load(pre)
    /\ json_load(backup_json) = json_load(pre)

(* C27: the merges compose in either order: the accordion merge, run on a
   document the service-level merge produced, ends without an unhandled
   error and writes the document, whatever the number of categories of a
   service group. *)
C27_AccordionAfterService ==
    (/\ RunEnded
     /\ script = "accordion"
     /\ prev = [script |-> "service", result |-> "written"])
        => /\ result = "written"
           /\ Loadable(docs_json)

(* the other order, and the accordion merge on service groups of at most
   ten categories, do end with the document written *)
C27_OtherCasesCompose ==
    /\ (/\ RunEnded
        /\ script = "service"
        /\ prev = [script |-> "accordion", result |-> "written"])
           => result = "written"
    /\ (/\ RunEnded
        /\ script = "accordion"
        /\ prev = [script |-> "service", result |-> "written"]
        /\ \A i \in 2..Len(api_groups(json_load(pre))) :
               Len(api_groups(json_load(pre))[i].pages) <= Threshold)
           => result = "written"

(* the page references of a node, of a list of nodes from the i-th on, in
   document order *)
RECURSIVE C28_Leaves(_)
RECURSIVE C28_LeavesFrom(_, _)
C28_LeavesFrom(list, i) ==
    IF i > Len(list) THEN <<>> ELSE C28_Leaves(list[i]) \o C28_LeavesFrom(list, i + 1)

C28_Leaves(node) ==
    IF IsStr(node) THEN <<node.page>> ELSE C28_LeavesFrom(node.pages, 1)

(* the page references under the groups that follow the intro of the 'API
   reference' tab of a docs.json *)
C28_Endpoints(file) == C28_LeavesFrom(api_groups(json_load(file)), 2)

(* a and b hold the same elements, each as often in a as in b *)
C28_SameBag(a, b) ==
    /\ Len(a) = Len(b)
    /\ \A x \in Range(a) \cup Range(b) : Count(x, a) = Count(x, b)

(* C28: reclassification never loses or duplicates an endpoint: after every
   run of the accordion merge or of the service-level merge, the page
   references found at any depth under the groups that follow the intro are,
   as a multiset, those of the document the run started from; so they are
   the same after every run of a sequence as before the first. *)
C28_LeavesPreserved ==
    (/\ pc = "idle"
     /\ script \in {"accordion", "service"}
     /\ result \in {"written", "raised"}
     /\ Loadable(pre)
     /\ find_api_tab(json_load(pre)) # 0)
        => /\ Loadable(docs_json)
           /\ C28_SameBag(C28_Endpoints(docs_json), C28_Endpoints(pre))

(* a third run, on accordion sub-groups below service groups, one of them
   'Other Services' *)
C28_Witness ==
    /\ RunWrote
    /\ runs = 3
    /\ script = "service"
    /\ prev.result = "written"
    /\ json_load(docs_json) # json_load(pre)
    /\ Len(C28_Endpoints(docs_json)) > Threshold + 1
    /\ \E i \in 2..Len(api_groups(json_load(docs_json))) :
           C23_Depth(api_groups(json_load(docs_json))[i]) = 4

====
